---- MODULE Spec2Model ----
(***************************************************************************)
(* lwext4_rust: the safe layer between a block device and the lwext4       *)
(* engine.  The Rust layer (src/src/fs.rs, src/src/inode/*.rs) is          *)
(* translated operation by operation; the engine (c/lwext4, reached        *)
(* through ffi) is modelled abstractly: an inode table, directory entry    *)
(* lists, a logical-to-physical block map per inode and the device's       *)
(* blocks.                                                                 *)
(***************************************************************************)
EXTENDS Integers, Sequences, FiniteSets, TLC

(***************************************************************************)
(* Bounds of the model.                                                    *)
(***************************************************************************)
\* filesystem block size (1024 << log_block_size in the code) of the images
\* of the I/O, directory and rename specifications, scaled down
IOBlockSize == 2
\* data blocks of the device: physical blocks 1..NumFBlocks (block 0 is reserved)
NumFBlocks == 3
\* the k-th fallible engine call of an operation may fail, k <= MaxFailAt
MaxFailAt == 2
\* operations issued in one behaviour of the directory specification
MaxOps == 2
\* values of lookup and read_dir a caller holds at a time
MaxHandles == 1
\* in the rename specification the k-th fallible engine call may fail, k <= MaxRenameFailAt
MaxRenameFailAt == 22
\* filesystem block size of the images of the symlink specification: the
\* smallest that is larger than the inode's block-pointer area
SymBlockSize == 61
\* in the symlink specification the k-th fallible engine call may fail, k <= MaxSymFailAt
MaxSymFailAt == 4
\* block devices of the mount specification
MaxDevices == 2
\* in the mount specification the k-th fallible engine call may fail, k <= MaxMountFailAt
MaxMountFailAt == 5
\* operations issued in one behaviour of the directory reader specification
MaxDirOps == 4

(***************************************************************************)
(* Program constants.                                                      *)
(***************************************************************************)
EOK == 0
ENOENT == 2
EIO == 5
EISDIR == 21
EINVAL == 22
ENOSPC == 28
ENAMETOOLONG == 36
ENOTEMPTY == 39
ENOTSUP == 95
\* blockdev.rs: the device block size
EXT4_DEV_BSIZE == 512
\* size_of::<[u32; 15]>(): the inode's block-pointer area
INLINE_SIZE == 60
\* inode mode type bits as the engine stores them (mode & 0xF000)
S_IFIFO == 4096
S_IFCHR == 8192
S_IFDIR == 16384
S_IFBLK == 24576
S_IFREG == 32768
S_IFLNK == 40960
S_IFSOCK == 49152

Min(a, b) == IF a < b THEN a ELSE b
Max(a, b) == IF a > b THEN a ELSE b
DivCeil(a, b) == (a + b - 1) \div b

\* inode numbers: 2 is the root directory, as in ext4
ROOT == 2
Inos == 2..5
\* the regular file the I/O operations work on
FILE == ROOT + 1
SUBDIR == ROOT + 2

\* a byte no operation ever writes: marks untouched bytes of a caller's buffer
UNTOUCHED == 255 + 1

(***************************************************************************)
(* Machine words.  A word is the sequence of its bits, lowest first, so    *)
(* that 32-bit and 64-bit values keep their width.                         *)
(***************************************************************************)
\* the w-bit word of the number n, n < 2^31
Word(n, w) ==
    SubSeq([i \in 1..w |-> IF i <= 31 THEN (n \div 2^(i - 1)) % 2 ELSE 0], 1, w)

\* the w-bit word whose set bits are the positions of the set S (0 the lowest)
WordOfBits(S, w) == SubSeq([i \in 1..w |-> IF (i - 1) \in S THEN 1 ELSE 0], 1, w)

\* the number a word of at most 31 significant bits stands for
RECURSIVE WordValue(_)
WordValue(v) ==
    IF v = <<>> THEN 0 ELSE v[1] + 2 * WordValue(Tail(v))

\* x as u32, x as u64
as_u32(v) == SubSeq([i \in 1..32 |-> IF i <= Len(v) THEN v[i] ELSE 0], 1, 32)
as_u64(v) == SubSeq([i \in 1..64 |-> IF i <= Len(v) THEN v[i] ELSE 0], 1, 64)

\* v << k, v >> k, a | b, a & b on words of one width
Shl(v, k) == SubSeq([i \in 1..Len(v) |-> IF i > k THEN v[i - k] ELSE 0], 1, Len(v))
Shr(v, k) ==
    SubSeq([i \in 1..Len(v) |-> IF i + k <= Len(v) THEN v[i + k] ELSE 0], 1, Len(v))
BitOr(a, b) ==
    SubSeq([i \in 1..Len(a) |-> IF a[i] = 1 \/ b[i] = 1 THEN 1 ELSE 0], 1, Len(a))
BitAnd(a, b) ==
    SubSeq([i \in 1..Len(a) |-> IF a[i] = 1 /\ b[i] = 1 THEN 1 ELSE 0], 1, Len(a))

\* the carry into bit i of a + b: a lower bit generates it and every bit
\* between passes it on
Carry(a, b, i) ==
    IF \E j \in 1..(i - 1) :
          /\ a[j] = 1 /\ b[j] = 1
          /\ \A k \in (j + 1)..(i - 1) : a[k] = 1 \/ b[k] = 1
    THEN 1 ELSE 0

\* a + b on words of one width; the sums of the program do not overflow
Add(a, b) ==
    SubSeq([i \in 1..Len(a) |-> (a[i] + b[i] + Carry(a, b, i)) % 2], 1, Len(a))

\* u32::swap_bytes
swap_bytes(v) ==
    SubSeq([i \in 1..32 |-> v[(3 - ((i - 1) \div 8)) * 8 + ((i - 1) % 8) + 1]], 1, 32)

\* u32::to_le and u32::from_le on a little-endian or a big-endian target
to_le(v, big_endian) == IF big_endian THEN swap_bytes(v) ELSE v
from_le(v, big_endian) == IF big_endian THEN swap_bytes(v) ELSE v

(***************************************************************************)
(* Timestamps (inode/attr.rs).  A Duration is [secs, nanos]: secs a 64-bit *)
(* word, nanos a number below NANOS_PER_SEC.                               *)
(***************************************************************************)
NANOS_PER_SEC == 1000000000

\* Duration::new(secs, nanos): whole seconds of nanos are carried into secs
Duration(secs, nanos) ==
    [secs |-> Add(secs, Word(nanos \div NANOS_PER_SEC, 64)),
     nanos |-> nanos % NANOS_PER_SEC]

\* encode_time(dur) = (time, extra)
encode_time(dur, big_endian) ==
    LET sec == dur.secs
        nsec == Word(dur.nanos, 32)
    IN  [time |-> to_le(as_u32(sec), big_endian),
         extra |-> to_le(BitOr(Shl(nsec, 2), as_u32(Shr(sec, 32))), big_endian)]

\* decode_time(time, extra)
decode_time(time, extra, big_endian) ==
    LET sec == from_le(time, big_endian)
        ex == from_le(extra, big_endian)
        epoch == BitAnd(ex, Word(3, 32))
        nsec == Shr(epoch, 2)
    IN  Duration(Add(as_u64(sec), Shl(as_u64(epoch), 32)), WordValue(nsec))

\* the time fields of an inode
TimeFields == {"atime", "mtime", "ctime"}

\* no duration: a field no set_*time has written
NoDuration == [secs |-> <<>>, nanos |-> 0]

\* the state of the time fields outside the timestamp specification
NoTimes == [big_endian |-> FALSE,
            raw |-> [f \in TimeFields |-> [time |-> Word(0, 32), extra |-> Word(0, 32)]],
            given |-> [f \in TimeFields |-> NoDuration]]
NoAttr == [f \in TimeFields |-> NoDuration]

\* set_atime, set_mtime, set_ctime: the field f of the inode
set_time(t, f, dur) ==
    [t EXCEPT !.raw[f] = encode_time(dur, t.big_endian), !.given[f] = dur]

\* get_attr: atime, mtime and ctime of the FileAttr
get_attr_times(t) ==
    [f \in TimeFields |-> decode_time(t.raw[f].time, t.raw[f].extra, t.big_endian)]

(***************************************************************************)
(* State.                                                                  *)
(***************************************************************************)
VARIABLES
    inodes,            \* engine: ino -> [alloc, mode, nlink, size, bmap, body, extents]
    dirs,              \* engine: ino -> sequence of directory entries [name, ino]
    disk,              \* device: physical block -> its bytes
    refcnt,            \* engine: ino -> number of checkouts not yet put
    cache_write_back,  \* engine: bdev.cache_write_back, the write-back enable count
    handles,           \* caller-held DirLookupResult / DirReader values
    last,              \* the last operation: its inputs, result and engine calls
    panicked,          \* a panic (assert!, todo!(), expect) has ended the program
    nops,              \* operations issued so far
    block_size,        \* superblock: the filesystem block size
    times,             \* the raw time fields of one inode, and the durations set
    attr,              \* the FileAttr the last get_attr filled in
    mount              \* device -> the engine resources of its Ext4Filesystem

vars == <<inodes, dirs, disk, refcnt, cache_write_back, handles, last,
          panicked, nops, block_size, times, attr, mount>>

\* get_block_size(sb)
BlockSize == block_size

(***************************************************************************)
(* The machine an operation runs on: the engine's state, the caller's      *)
(* buffer and the Rust locals of the running operation.  An operation is a *)
(* function from machine to machine; its engine calls are appended to log. *)
(*   st      "run", "err" (an Err is being returned) or "panic"            *)
(*   failed  an engine call has returned a non-zero status                 *)
(*   failAt  the failAt-th fallible engine call from now fails (0: none)   *)
(*   ub      what a call on a zeroed ext4_inode_ref does: "ok" or "crash"  *)
(*   alloc   the engine allocator's choice among the free blocks           *)
(*   refs    the InodeRef values created so far: [index, dirty, live]      *)
(*   buf/out the caller's buffer; cur bytes of it are consumed, lim is its *)
(*           length after clamping                                         *)
(*   found   the DirLookupResult in hand: its parent reference and entry   *)
(*   iter    the DirReader in hand: its parent reference, its position and *)
(*           the entry curr points to (0: curr is null)                    *)
(***************************************************************************)
Machine(failAt, ub, alloc) ==
    [ino |-> inodes, dir |-> dirs, disk |-> disk, rc |-> refcnt,
     wb |-> cache_write_back, log |-> <<>>, failAt |-> failAt, ub |-> ub,
     alloc |-> alloc, st |-> "run", failed |-> FALSE, code |-> EOK, rcode |-> EOK, ret |-> 0,
     ret2 |-> 0, data |-> <<>>, refs |-> <<>>, buf |-> <<>>, out |-> <<>>,
     cur |-> 0, lim |-> 0, fblock_start |-> 0, fblock_count |-> 0,
     found |-> [parent |-> 0, dentry |-> 0], iter |-> [parent |-> 0, off |-> 0, curr |-> 0]]

Ev(call, a, b) == [call |-> call, a |-> a, b |-> b]
Log(m, call, a, b) == [m EXCEPT !.log = Append(@, Ev(call, a, b))]

\* a fallible engine call: the injected failure hits the failAt-th one
Fails(m) == m.failAt = 1
Tick(m) == [m EXCEPT !.failAt = IF @ > 0 THEN @ - 1 ELSE 0]

\* `?` on a non-zero status: the operation returns Err(code)
Raise(m, code) == [m EXCEPT !.st = "err", !.code = code]
\* Context::context for i32
context(m) ==
    IF m.rcode # EOK THEN [Raise(m, m.rcode) EXCEPT !.failed = TRUE] ELSE m
Panic(m) == [m EXCEPT !.st = "panic"]

\* sequencing: K applied to the machine a step ended in
Then(a, K(_)) == K(a)

(***************************************************************************)
(* Mounting and unmounting (fs.rs, blockdev.rs).  The engine resources of  *)
(* one Ext4Filesystem: how often the block device, the filesystem state    *)
(* and the block cache were initialised and finalised, the write-back      *)
(* count of the device, the item size of the cache, and whether the        *)
(* Ext4Filesystem value exists.  A mount machine carries them through new  *)
(* and drop as the machine above carries the image.                        *)
(***************************************************************************)
Devs == 1..MaxDevices

NoResource == [init |-> 0, fini |-> 0]
LiveResource == [init |-> 1, fini |-> 0]

\* before Ext4Filesystem::new
Unmounted == [handle |-> FALSE, bdev |-> NoResource, fs |-> NoResource,
              bcache |-> NoResource, wb |-> 0, itemsize |-> 0]

\* the devices outside the mount specification: the first is mounted
Mounted ==
    [d \in Devs |->
        IF d = 1
        THEN [handle |-> TRUE, bdev |-> LiveResource, fs |-> LiveResource,
              bcache |-> LiveResource, wb |-> 1, itemsize |-> 0]
        ELSE Unmounted]

MountMachine(res, failAt) ==
    [res |-> res, log |-> <<>>, failAt |-> failAt, st |-> "run", failed |-> FALSE,
     code |-> EOK, rcode |-> EOK]

\* the status of a fallible engine call
Status(m) == IF Fails(m) THEN EIO ELSE EOK

ext4_block_init(m) ==
    LET m1 == Log(Tick(m), "ext4_block_init", 0, Status(m))
    IN  IF Fails(m) THEN [m1 EXCEPT !.rcode = EIO]
        ELSE [m1 EXCEPT !.rcode = EOK, !.res.bdev.init = @ + 1]

ext4_block_fini(m) ==
    Log([m EXCEPT !.res.bdev.fini = @ + 1], "ext4_block_fini", 0, 0)

\* ext4_block_cache_write_back with its status
ext4_block_cache_write_back_status(m, on) ==
    LET m1 == Log(Tick(m), "ext4_block_cache_write_back", on, Status(m))
    IN  [m1 EXCEPT !.rcode = Status(m),
                   !.res.wb = IF on = 1 THEN @ + 1 ELSE IF @ > 0 THEN @ - 1 ELSE 0]

ext4_fs_init(m) ==
    LET m1 == Log(Tick(m), "ext4_fs_init", 0, Status(m))
    IN  IF Fails(m) THEN [m1 EXCEPT !.rcode = EIO]
        ELSE [m1 EXCEPT !.rcode = EOK, !.res.fs.init = @ + 1]

\* the status is reported, the filesystem state is given up in any case
ext4_fs_fini(m) ==
    LET m1 == Log(Tick(m), "ext4_fs_fini", 0, Status(m))
    IN  [m1 EXCEPT !.rcode = Status(m), !.res.fs.fini = @ + 1]

ext4_block_set_lb_size(m, bs) == Log(m, "ext4_block_set_lb_size", bs, 0)

\* the cache is set up with items of itemsize bytes
ext4_bcache_init_dynamic(m, itemsize) ==
    LET m1 == Log(Tick(m), "ext4_bcache_init_dynamic", itemsize, Status(m))
    IN  IF Fails(m) THEN [m1 EXCEPT !.rcode = EIO]
        ELSE [m1 EXCEPT !.rcode = EOK, !.res.bcache.init = @ + 1,
                        !.res.itemsize = itemsize]

ext4_bcache_cleanup(m) == Log(m, "ext4_bcache_cleanup", 0, 0)

ext4_bcache_fini_dynamic(m) ==
    Log([m EXCEPT !.res.bcache.fini = @ + 1], "ext4_bcache_fini_dynamic", 0, 0)

ext4_block_bind_bcache(m) ==
    LET m1 == Log(Tick(m), "ext4_block_bind_bcache", 0, Status(m))
    IN  [m1 EXCEPT !.rcode = Status(m)]

\* Ext4BlockDevice::new
Ext4BlockDevice_new(m) ==
    Then(context(ext4_block_init(m)), LAMBDA a :
         IF a.st # "run" THEN a
         ELSE Then(context(ext4_block_cache_write_back_status(a, 1)), LAMBDA b :
                   IF b.st # "run" THEN ext4_block_fini(b) ELSE b))

\* impl Drop for Ext4BlockDevice
drop_Ext4BlockDevice(m) ==
    ext4_block_fini(ext4_block_cache_write_back_status(m, 0))

\* a drop that gives up when ext4_fs_fini reports an error
drop_Ext4Filesystem_stop_on_error(m) ==
    Then(ext4_fs_fini(m), LAMBDA a :
         IF a.rcode # EOK THEN [a EXCEPT !.res.handle = FALSE]
         ELSE [drop_Ext4BlockDevice(ext4_bcache_fini_dynamic(ext4_bcache_cleanup(a)))
                  EXCEPT !.res.handle = FALSE])

\* impl Drop for Ext4Filesystem, then the drop of its field bdev
drop_Ext4Filesystem(m) ==
    [drop_Ext4BlockDevice(ext4_bcache_fini_dynamic(ext4_bcache_cleanup(ext4_fs_fini(m))))
        EXCEPT !.res.handle = FALSE]

\* Ext4Filesystem::new, after Ext4BlockDevice::new: the locals fs and bdev
\* are dropped when it returns early, the value result when the binding
\* fails.  itemsize is the item size the engine sets the cache up with.
new_fs(m, itemsize) ==
    Then(context(ext4_fs_init(m)), LAMBDA a :
         IF a.st # "run" THEN drop_Ext4BlockDevice(a)
         ELSE Then(context(ext4_bcache_init_dynamic(
                               ext4_block_set_lb_size(a, BlockSize), itemsize)),
                   LAMBDA b :
                   IF b.st # "run" THEN drop_Ext4BlockDevice(b)
                   ELSE IF BlockSize # b.res.itemsize
                   THEN drop_Ext4BlockDevice(Raise(b, ENOTSUP))
                   ELSE Then(context(ext4_block_bind_bcache(b)), LAMBDA c :
                             IF c.st # "run" THEN drop_Ext4Filesystem(c)
                             ELSE [c EXCEPT !.res.handle = TRUE])))

\* Ext4Filesystem::new
new(m, itemsize) ==
    Then(Ext4BlockDevice_new(m), LAMBDA a :
         IF a.st # "run" THEN a ELSE new_fs(a, itemsize))

(***************************************************************************)
(* The block device adapter's callbacks (blockdev.rs).  A callback returns *)
(* [st, status, calls]: st is "ret" or "panic", status the c_int returned, *)
(* calls the calls made on the wrapped device, each with the block id and  *)
(* the length of the buffer in 16-bit digits, lowest first.                *)
(***************************************************************************)
\* the product of the u32 values a and b, a < 2^16, as its three 16-bit
\* digits, lowest first; ph_bsize, the left factor, is EXT4_DEV_BSIZE
full_mul(a, b) ==
    LET lo == a * (b % 65536)
        hi == a * (b \div 65536) + lo \div 65536
    IN  << lo % 65536, hi % 65536, hi \div 65536 >>

\* u32 * u32 without overflow checks, then `as usize`: the low 32 bits
wrapping_mul(a, b) == << full_mul(a, b)[1], full_mul(a, b)[2], 0 >>

\* the product of two u32 does not fit a u32
mul_overflows(a, b) == full_mul(a, b)[3] # 0

\* the builds of the crate: with and without overflow checks
Builds == {"debug", "release"}

\* what the wrapped device answers: Ok, or Err with a code
DeviceAnswers == {EOK, EIO, EINVAL, ENOSPC}

\* dev_bread and dev_bwrite from `let buf_len` on: the u32 product panics in
\* a build with overflow checks and wraps in one without
dev_transfer(call, build, blk_id, blk_cnt, answer) ==
    LET ph_bsize == EXT4_DEV_BSIZE
        cnt == blk_cnt
    IN  IF mul_overflows(ph_bsize, cnt) /\ build = "debug"
        THEN [st |-> "panic", status |-> EOK, calls |-> <<>>]
        ELSE [st |-> "ret",
              status |-> IF answer # EOK THEN EIO ELSE EOK,
              calls |-> << Ev(call, blk_id, wrapping_mul(ph_bsize, cnt)) >>]

\* Ext4BlockDevice::dev_bread
dev_bread(build, blk_id, blk_cnt, answer) ==
    IF blk_cnt = 0 THEN [st |-> "ret", status |-> EOK, calls |-> <<>>]
    ELSE dev_transfer("read_blocks", build, blk_id, blk_cnt, answer)

\* Ext4BlockDevice::dev_bwrite
dev_bwrite(build, blk_id, blk_cnt, answer) ==
    IF blk_cnt = 0 THEN [st |-> "ret", status |-> EOK, calls |-> <<>>]
    ELSE dev_transfer("write_blocks", build, blk_id, blk_cnt, answer)

(***************************************************************************)
(* Pure helpers of the Rust layer.                                         *)
(***************************************************************************)
\* impl From<u8> for InodeType
InodeTypeFromU8(v) ==
    CASE v = 1 -> "Fifo"
      [] v = 2 -> "CharacterDevice"
      [] v = 4 -> "Directory"
      [] v = 6 -> "BlockDevice"
      [] v = 8 -> "RegularFile"
      [] v = 10 -> "Symlink"
      [] v = 12 -> "Socket"
      [] OTHER -> "Unknown"

\* InodeRef::inode_type: ((self.mode() >> 24) as u8).into()
inode_type(mode) == InodeTypeFromU8((mode \div 16777216) % 256)
is_dir(mode) == inode_type(mode) = "Directory"

\* take / take_mut: the next min(cnt, buf.len()) bytes of the remaining buffer
take(m, cnt) == Min(cnt, m.lim - m.cur)

(***************************************************************************)
(* The engine (c/lwext4), as far as the Rust layer observes it.            *)
(***************************************************************************)
PartSize == (NumFBlocks + 1) * BlockSize

\* the bytes [off, off+len) of the device
ReadRaw(d, off, len) ==
    [k \in 1..len |-> d[(off + k - 1) \div BlockSize][((off + k - 1) % BlockSize) + 1]]
WriteRaw(d, off, data) ==
    [f \in DOMAIN d |->
        [j \in 1..BlockSize |->
            LET lin == f * BlockSize + j - 1
            IN  IF lin >= off /\ lin < off + Len(data)
                THEN data[lin - off + 1] ELSE d[f][j]]]

\* the physical block of logical block `block`, 0 for a hole
MappedBlock(inode, block) ==
    IF inode.size = 0 THEN 0
    ELSE IF block < Len(inode.bmap) THEN inode.bmap[block + 1] ELSE 0

SetMap(bmap, block, f) ==
    [k \in 1..Max(Len(bmap), block + 1) |->
        IF k = block + 1 THEN f ELSE IF k <= Len(bmap) THEN bmap[k] ELSE 0]

FreeBlocks(m) ==
    {f \in 1..NumFBlocks :
        \A i \in Inos : \A k \in 1..Len(m.ino[i].bmap) : m.ino[i].bmap[k] # f}
PickFree(m) ==
    LET free == FreeBlocks(m)
    IN  IF m.alloc = "lo" THEN CHOOSE f \in free : \A g \in free : f <= g
        ELSE CHOOSE f \in free : \A g \in free : f >= g

ext4_fs_get_inode_dblk_idx(m, i, block) ==
    LET m1 == Log(Tick(m), "ext4_fs_get_inode_dblk_idx", i, block)
    IN  IF Fails(m) THEN [m1 EXCEPT !.rcode = EIO]
        ELSE [m1 EXCEPT !.rcode = EOK, !.ret = MappedBlock(m.ino[i], block)]

\* lookup that allocates the block when it is a hole
ext4_fs_init_inode_dblk_idx(m, i, block) ==
    LET m1 == Log(Tick(m), "ext4_fs_init_inode_dblk_idx", i, block)
        cur == MappedBlock(m.ino[i], block)
    IN  IF Fails(m) THEN [m1 EXCEPT !.rcode = EIO]
        ELSE IF cur # 0 THEN [m1 EXCEPT !.rcode = EOK, !.ret = cur]
        ELSE IF FreeBlocks(m) = {} THEN [m1 EXCEPT !.rcode = ENOSPC]
        ELSE LET f == PickFree(m)
             IN  [m1 EXCEPT !.rcode = EOK, !.ret = f,
                            !.ino[i].bmap = SetMap(@, block, f)]

\* appends the next logical block, ceil(size / block_size), and grows the
\* size field by one block
ext4_fs_append_inode_dblk(m, i) ==
    LET iblock == DivCeil(m.ino[i].size, BlockSize)
        m1 == Log(Tick(m), "ext4_fs_append_inode_dblk", i, iblock)
    IN  IF Fails(m) THEN [m1 EXCEPT !.rcode = EIO]
        ELSE IF FreeBlocks(m) = {} THEN [m1 EXCEPT !.rcode = ENOSPC]
        ELSE LET f == PickFree(m)
             IN  [m1 EXCEPT !.rcode = EOK, !.ret = f, !.ret2 = iblock,
                            !.ino[i].bmap = SetMap(@, iblock, f),
                            !.ino[i].body = <<>>,
                            !.ino[i].size = @ + BlockSize]

ext4_block_readbytes(m, off, len) ==
    LET m1 == Log(Tick(m), "ext4_block_readbytes", off, len)
    IN  IF Fails(m) THEN [m1 EXCEPT !.rcode = EIO]
        ELSE IF off + len > PartSize THEN [m1 EXCEPT !.rcode = EINVAL]
        ELSE [m1 EXCEPT !.rcode = EOK, !.data = ReadRaw(m.disk, off, len)]

ext4_block_writebytes(m, off, data) ==
    LET m1 == Log(Tick(m), "ext4_block_writebytes", off, Len(data))
    IN  IF Fails(m) THEN [m1 EXCEPT !.rcode = EIO]
        ELSE IF off + Len(data) > PartSize THEN [m1 EXCEPT !.rcode = EINVAL]
        ELSE [m1 EXCEPT !.rcode = EOK, !.disk = WriteRaw(@, off, data)]

ext4_blocks_get_direct(m, start, count) ==
    LET m1 == Log(Tick(m), "ext4_blocks_get_direct", start, count)
    IN  IF Fails(m) THEN [m1 EXCEPT !.rcode = EIO]
        ELSE IF (start + count) * BlockSize > PartSize THEN [m1 EXCEPT !.rcode = EIO]
        ELSE [m1 EXCEPT !.rcode = EOK,
                        !.data = ReadRaw(m.disk, start * BlockSize, count * BlockSize)]

ext4_blocks_set_direct(m, data, start, count) ==
    LET m1 == Log(Tick(m), "ext4_blocks_set_direct", start, count)
    IN  IF Fails(m) THEN [m1 EXCEPT !.rcode = EIO]
        ELSE IF (start + count) * BlockSize > PartSize THEN [m1 EXCEPT !.rcode = EIO]
        ELSE [m1 EXCEPT !.rcode = EOK, !.disk = WriteRaw(@, start * BlockSize, data)]

ext4_inode_set_size(m, i, sz) ==
    Log([m EXCEPT !.ino[i].size = sz], "ext4_inode_set_size", i, sz)

\* on: count up; off: count down, not below zero (a flush when it reaches zero)
ext4_block_cache_write_back(m, on) ==
    Log([m EXCEPT !.wb = IF on = 1 THEN @ + 1 ELSE IF @ > 0 THEN @ - 1 ELSE 0],
        "ext4_block_cache_write_back", on, 0)

\* cuts the file to new_size, releasing the blocks past it; growing is refused
ext4_fs_truncate_inode(m, i, new_size) ==
    LET m1 == Log(Tick(m), "ext4_fs_truncate_inode", i, new_size)
        old == m.ino[i].size
    IN  IF Fails(m) THEN [m1 EXCEPT !.rcode = EIO]
        ELSE IF old = new_size THEN [m1 EXCEPT !.rcode = EOK]
        ELSE IF old < new_size THEN [m1 EXCEPT !.rcode = EINVAL]
        ELSE [m1 EXCEPT !.rcode = EOK, !.ino[i].size = new_size,
                        !.ino[i].bmap = SubSeq(@, 1, Min(Len(@), DivCeil(new_size, BlockSize))),
                        !.dir[i] = IF new_size = 0 THEN <<>> ELSE @]

(***************************************************************************)
(* Inode References (src/src/inode/mod.rs, src/src/fs.rs).                 *)
(***************************************************************************)
\* InodeRef::new(mem::zeroed()): index 0 until a checkout fills it in
InodeRef_new(m) ==
    [m EXCEPT !.refs = Append(@, [index |-> 0, dirty |-> FALSE, live |-> TRUE])]

ino(m, r) == m.refs[r].index

ext4_fs_get_inode_ref(m, i, r) ==
    LET m1 == Log(Tick(m), "ext4_fs_get_inode_ref", i, r)
    IN  IF Fails(m) THEN [m1 EXCEPT !.rcode = EIO]
        ELSE [m1 EXCEPT !.rcode = EOK, !.rc[i] = @ + 1, !.refs[r].index = i]

\* A put of a reference that holds a checkout releases it.  A put of a zeroed
\* ext4_inode_ref dereferences its null fs pointer: the call crashes, or it
\* returns and nothing is released.
ext4_fs_put_inode_ref(m, r) ==
    LET i == m.refs[r].index
    IN  IF i = 0
        THEN LET m1 == Log(m, "ext4_fs_put_inode_ref", 0, r)
             IN  [m1 EXCEPT !.rcode = IF m.ub = "crash" THEN EIO ELSE EOK]
        ELSE LET m1 == Log(Tick(m), "ext4_fs_put_inode_ref", i, r)
             IN  IF Fails(m) THEN [m1 EXCEPT !.rcode = EIO]
                 ELSE [m1 EXCEPT !.rcode = EOK, !.rc[i] = @ - 1]

\* impl Drop for InodeRef: runs on every way out of a scope but a panic
drop_InodeRef(m, r) ==
    IF m.st = "panic" THEN m
    ELSE Then([ext4_fs_put_inode_ref(m, r) EXCEPT !.refs[r].live = FALSE],
              LAMBDA a : IF a.rcode # EOK THEN [Panic(a) EXCEPT !.failed = TRUE]
                         ELSE a)

\* Ext4Filesystem::inode_ref: on Ok the new reference is the last of m.refs
inode_ref(m, i) ==
    IF m.st # "run" THEN m
    ELSE Then(context(ext4_fs_get_inode_ref(InodeRef_new(m), i, Len(m.refs) + 1)),
              LAMBDA b : IF b.st # "run" THEN drop_InodeRef(b, Len(b.refs)) ELSE b)

mark_dirty(m, r) == [m EXCEPT !.refs[r].dirty = TRUE]

size(m, r) == m.ino[ino(m, r)].size
mode(m, r) == m.ino[ino(m, r)].mode

(***************************************************************************)
(* The engine's directories, link counts and inode allocation.             *)
(***************************************************************************)
\* the position of the first entry of directory d named name, 0 when none
FindEntry(d, name) ==
    IF \E k \in 1..Len(d) : d[k].name = name
    THEN CHOOSE k \in 1..Len(d) :
            d[k].name = name /\ \A j \in 1..(k - 1) : d[j].name # name
    ELSE 0

RemoveAt(d, k) == [j \in 1..(Len(d) - 1) |-> IF j < k THEN d[j] ELSE d[j + 1]]

ext4_dir_find_entry(m, r, name) ==
    LET m1 == Log(Tick(m), "ext4_dir_find_entry", ino(m, r), name)
        k == FindEntry(m.dir[ino(m, r)], name)
    IN  IF Fails(m) THEN [m1 EXCEPT !.rcode = EIO]
        ELSE IF k = 0 THEN [m1 EXCEPT !.rcode = ENOENT]
        ELSE [m1 EXCEPT !.rcode = EOK, !.ret = k]

ext4_dir_destroy_result(m, r) == Log(m, "ext4_dir_destroy_result", ino(m, r), 0)

\* the entry goes after the ones the directory holds; a directory that gets
\* its first entry gets its first block
ext4_dir_add_entry(m, r, name, child) ==
    LET m1 == Log(Tick(m), "ext4_dir_add_entry", ino(m, r), name)
        p == ino(m, r)
    IN  IF Fails(m) THEN [m1 EXCEPT !.rcode = EIO]
        ELSE [m1 EXCEPT !.rcode = EOK,
                        !.dir[p] = Append(@, [name |-> name, ino |-> ino(m, child)]),
                        !.ino[p].size = Max(@, BlockSize)]

ext4_dir_remove_entry(m, r, name) ==
    LET m1 == Log(Tick(m), "ext4_dir_remove_entry", ino(m, r), name)
        p == ino(m, r)
        k == FindEntry(m.dir[p], name)
    IN  IF Fails(m) THEN [m1 EXCEPT !.rcode = EIO]
        ELSE IF k = 0 THEN [m1 EXCEPT !.rcode = ENOENT]
        ELSE [m1 EXCEPT !.rcode = EOK, !.dir[p] = RemoveAt(@, k)]

\* where curr points when the iterator stands after `off` entries of the
\* directory d: at the next entry, or nowhere once the entries are used up
IterCurr(d, off) == IF off < Len(d) THEN off + 1 ELSE 0

\* the iterator stands at the entry after `off` entries
ext4_dir_iterator_init(m, r, off) ==
    LET m1 == Log(Tick(m), "ext4_dir_iterator_init", ino(m, r), off)
    IN  IF Fails(m) THEN [m1 EXCEPT !.rcode = EIO]
        ELSE [m1 EXCEPT !.rcode = EOK,
                        !.iter = [parent |-> r, off |-> off,
                                  curr |-> IterCurr(m.dir[ino(m, r)], off)]]

ext4_dir_iterator_next(m) ==
    LET m1 == Log(Tick(m), "ext4_dir_iterator_next", ino(m, m.iter.parent), m.iter.off)
    IN  IF Fails(m) THEN [m1 EXCEPT !.rcode = EIO]
        ELSE [m1 EXCEPT !.rcode = EOK, !.iter.off = @ + 1,
                        !.iter.curr = IterCurr(m.dir[ino(m, m.iter.parent)],
                                               m.iter.off + 1)]

ext4_dir_iterator_fini(m) ==
    Log(m, "ext4_dir_iterator_fini", ino(m, m.iter.parent), 0)

\* directories are never counted below 2, other inodes never below 0
ext4_fs_inode_links_count_dec(m, i) ==
    LET links == m.ino[i].nlink
        isdir == (m.ino[i].mode \div 4096) * 4096 = S_IFDIR
    IN  IF (isdir /\ links > 2) \/ (~isdir /\ links > 0)
        THEN [m EXCEPT !.ino[i].nlink = links - 1] ELSE m

ext4_fs_inode_links_count_inc(m, i) ==
    [m EXCEPT !.ino[i].nlink = (@ + 1) % 65536]

ext4_inode_get_mode(m, i) == m.ino[i].mode
ext4_inode_set_mode(m, i, v) == [m EXCEPT !.ino[i].mode = v % 65536]

\* the mode a fresh inode of directory-entry type ty starts with
ModeOfType(ty) ==
    CASE ty = "Directory" -> S_IFDIR + 511
      [] ty = "Symlink" -> S_IFLNK + 511
      [] ty = "Fifo" -> S_IFIFO + 438
      [] ty = "CharacterDevice" -> S_IFCHR + 438
      [] ty = "BlockDevice" -> S_IFBLK + 438
      [] ty = "Socket" -> S_IFSOCK + 438
      [] OTHER -> S_IFREG + 438

FreeInodes(m) == {i \in Inos : ~m.ino[i].alloc}

\* a free inode becomes an empty inode of the type, with no links, checked out
ext4_fs_alloc_inode(m, r, ty) ==
    LET m1 == Log(Tick(m), "ext4_fs_alloc_inode", 0, ty)
        free == FreeInodes(m)
    IN  IF Fails(m) THEN [m1 EXCEPT !.rcode = EIO]
        ELSE IF free = {} THEN [m1 EXCEPT !.rcode = ENOSPC]
        ELSE LET i == IF m.alloc = "lo" THEN CHOOSE f \in free : \A g \in free : f <= g
                      ELSE CHOOSE f \in free : \A g \in free : f >= g
             IN  [m1 EXCEPT !.rcode = EOK, !.rc[i] = @ + 1, !.refs[r].index = i,
                            !.dir[i] = <<>>,
                            !.ino[i] = [alloc |-> TRUE, mode |-> ModeOfType(ty),
                                        nlink |-> 0, size |-> 0, bmap |-> <<>>,
                                        body |-> <<>>, extents |-> TRUE]]

\* regular files and directories get an empty block map (an empty extent
\* tree, the extents flag set); inodes of other types are left as they are
ext4_fs_inode_blocks_init(m, r) ==
    LET i == ino(m, r)
        ty == (m.ino[i].mode \div 4096) * 4096
        m1 == Log(m, "ext4_fs_inode_blocks_init", i, 0)
    IN  IF ty = S_IFREG \/ ty = S_IFDIR
        THEN [m1 EXCEPT !.ino[i].bmap = <<>>, !.ino[i].body = <<>>,
                        !.ino[i].extents = TRUE]
        ELSE m1

\* EXT4_INODE_FLAG_EXTENTS of the inode is cleared
ext4_inode_clear_flag(m, i) ==
    Log([m EXCEPT !.ino[i].extents = FALSE], "ext4_inode_clear_flag", i, 0)

\* the inode goes back to the free inodes; what it holds stays as it is
ext4_fs_free_inode(m, r) ==
    Log([m EXCEPT !.ino[ino(m, r)].alloc = FALSE], "ext4_fs_free_inode", ino(m, r), 0)

\* WritebackGuard::new / impl Drop for WritebackGuard
WritebackGuard_new(m) == ext4_block_cache_write_back(m, 1)
drop_WritebackGuard(m) ==
    IF m.st = "panic" THEN m ELSE ext4_block_cache_write_back(m, 0)

(***************************************************************************)
(* File I/O (src/src/inode/file.rs).                                       *)
(***************************************************************************)
\* copies data into the caller's buffer from position start + 1 on
Put(m, start, data) ==
    [m EXCEPT !.out = [j \in 1..Len(@) |->
        IF j > start /\ j <= start + Len(data) THEN data[j - start] ELSE @[j]]]
Zeros(k) == [j \in 1..k |-> 0]
Ok(m, v) == [m EXCEPT !.ret = v]

get_inode_fblock(m, r, block) ==
    context(ext4_fs_get_inode_dblk_idx(m, ino(m, r), block))
init_inode_fblock(m, r, block) ==
    context(ext4_fs_init_inode_dblk_idx(m, ino(m, r), block))
append_inode_fblock(m, r) ==
    context(ext4_fs_append_inode_dblk(m, ino(m, r)))

\* read_bytes(offset, buf) with buf the k bytes of the caller's buffer after start
read_bytes(m, offset, start, k) ==
    Then(context(ext4_block_readbytes(m, offset, k)),
         LAMBDA a : IF a.st = "run" THEN Put(a, start, a.data) ELSE a)
write_bytes(m, offset, data) == context(ext4_block_writebytes(m, offset, data))

\* InodeRef::truncate
truncate(m, r, sz) ==
    IF m.st # "run" THEN m
    ELSE drop_WritebackGuard(
             context(ext4_fs_truncate_inode(WritebackGuard_new(m), ino(m, r), sz)))

\* InodeRef::set_len: growing is todo!()
set_len(m, r, len) ==
    IF m.st # "run" THEN m
    ELSE LET cur_len == size(m, r)
         IN  IF len < cur_len THEN truncate(m, r, len)
             ELSE IF len > cur_len THEN Panic(m)
             ELSE m

\* set_symlink: whether the target goes into the inode's block-pointer area,
\* target.len() < size_of::<u32>() * EXT4_INODE_BLOCKS
inline_fits_inclusive(len) == len <= INLINE_SIZE
inline_fits(len) == len < INLINE_SIZE

\* set_symlink, the target copied over the block-pointer area of the inode:
\* the bytes past it stay, the block pointers under it are gone
set_symlink_inline(m, r, target) ==
    LET i == ino(m, r)
        old == m.ino[i].body
    IN  ext4_inode_clear_flag(
            [m EXCEPT !.ino[i].body =
                          [j \in 1..Max(Len(old), Len(target)) |->
                              IF j <= Len(target) THEN target[j] ELSE old[j]],
                      !.ino[i].bmap = IF Len(target) > 0 THEN <<>> ELSE @],
            i)

\* set_symlink, the target written into a block appended to the inode
set_symlink_block(m, r, target) ==
    Then(context(ext4_fs_append_inode_dblk(ext4_fs_inode_blocks_init(m, r), ino(m, r))),
         LAMBDA a : IF a.st # "run" THEN a
                    ELSE context(ext4_block_writebytes(a, a.ret * BlockSize, target)))

\* set_symlink without the test of the target's length
set_symlink_any_length(m, r, target) ==
    IF m.st # "run" THEN m
    ELSE Then(IF inline_fits(Len(target)) THEN set_symlink_inline(m, r, target)
              ELSE set_symlink_block(m, r, target),
              LAMBDA a : IF a.st # "run" THEN a
                         ELSE Ok(ext4_inode_set_size(a, ino(a, r), Len(target)), 0))

\* InodeRef::set_symlink(target)
set_symlink(m, r, target) ==
    IF m.st # "run" THEN m
    ELSE IF Len(target) > BlockSize THEN Raise(m, ENAMETOOLONG)
    ELSE Then(IF inline_fits(Len(target)) THEN set_symlink_inline(m, r, target)
              ELSE set_symlink_block(m, r, target),
              LAMBDA a : IF a.st # "run" THEN a
                         ELSE Ok(ext4_inode_set_size(a, ino(a, r), Len(target)), 0))

\* read_at, the partial first block
read_first_block(m, r, pos, block_start) ==
    LET offset == pos % BlockSize
        k == take(m, BlockSize - offset)
        start == m.cur
    IN  Then(get_inode_fblock([m EXCEPT !.cur = @ + k], r, block_start),
             LAMBDA a :
                IF a.st # "run" THEN a
                ELSE IF a.ret # 0
                THEN read_bytes(a, a.ret * BlockSize + offset, start, k)
                ELSE Put(a, start, Zeros(k)))

\* read_at, the closure flush_fblock_segment
read_flush_fblock_segment(m, start, count) ==
    IF count = 0 THEN m
    ELSE Then(context(ext4_blocks_get_direct(
                  [m EXCEPT !.cur = @ + take(m, count * BlockSize)], start, count)),
              LAMBDA a : IF a.st = "run" THEN Put(a, m.cur, a.data) ELSE a)

\* read_new_segment with every mapped block continuing a run in hand
read_new_segment_any_mapped(a, fblock) ==
    IF a.st # "run" \/ fblock = a.fblock_start + a.fblock_count
                   \/ (fblock # 0 /\ a.fblock_count > 0) THEN a
    ELSE Then(read_flush_fblock_segment(a, a.fblock_start, a.fblock_count),
              LAMBDA fl : IF fl.st # "run" THEN fl
                          ELSE [fl EXCEPT !.fblock_start = fblock, !.fblock_count = 0])

\* the loop bodies, when the block found does not continue the run in hand:
\* the run is flushed and a new one starts at fblock
read_new_segment(a, fblock) ==
    IF a.st # "run" \/ fblock = a.fblock_start + a.fblock_count THEN a
    ELSE Then(read_flush_fblock_segment(a, a.fblock_start, a.fblock_count),
              LAMBDA fl : IF fl.st # "run" THEN fl
                          ELSE [fl EXCEPT !.fblock_start = fblock, !.fblock_count = 0])

\* read_loop_body with a hole skipped instead of zero-filled
read_loop_body_skip_hole(m, r, block) ==
    Then(get_inode_fblock(m, r, block), LAMBDA a :
    Then(read_new_segment(a, a.ret), LAMBDA b :
        IF b.st # "run" THEN b
        ELSE IF a.ret = 0
        THEN [b EXCEPT !.cur = @ + take(b, BlockSize)]
        ELSE [b EXCEPT !.fblock_count = @ + 1]))

\* read_at, the body of the loop over the full blocks
read_loop_body(m, r, block) ==
    Then(get_inode_fblock(m, r, block), LAMBDA a :
    Then(read_new_segment(a, a.ret), LAMBDA b :
        IF b.st # "run" THEN b
        ELSE IF a.ret = 0
        THEN Put([b EXCEPT !.cur = @ + take(b, BlockSize)], b.cur,
                 Zeros(take(b, BlockSize)))
        ELSE [b EXCEPT !.fblock_count = @ + 1]))

RECURSIVE read_loop(_, _, _, _)
read_loop(m, r, block, block_end) ==
    IF m.st # "run" \/ block >= block_end THEN m
    ELSE read_loop(read_loop_body(m, r, block), r, block + 1, block_end)

\* read_full_blocks with the window closed on the successful path only
read_full_blocks_open_on_error(m, r, block_start, block_end) ==
    IF m.st # "run" THEN m
    ELSE Then(read_loop(WritebackGuard_new([m EXCEPT !.fblock_start = 0,
                                                     !.fblock_count = 0]),
                        r, block_start, block_end),
              LAMBDA a :
                 IF a.st # "run" THEN a
                 ELSE Then(read_flush_fblock_segment(a, a.fblock_start, a.fblock_count),
                           LAMBDA b : IF b.st # "run" THEN b
                                      ELSE drop_WritebackGuard(b)))

\* read_at, the window of full blocks under the write-back guard
read_full_blocks(m, r, block_start, block_end) ==
    IF m.st # "run" THEN m
    ELSE Then(read_loop(WritebackGuard_new([m EXCEPT !.fblock_start = 0,
                                                     !.fblock_count = 0]),
                        r, block_start, block_end),
              LAMBDA a :
                 drop_WritebackGuard(
                     IF a.st # "run" THEN a
                     ELSE read_flush_fblock_segment(a, a.fblock_start, a.fblock_count)))

\* read_at, the partial last block
read_last_block(m, r, block_end) ==
    IF m.st # "run" THEN m
    ELSE IF ~(m.lim - m.cur < BlockSize) THEN Panic(m)
    ELSE IF m.lim - m.cur = 0 THEN m
    ELSE LET k == m.lim - m.cur
             start == m.cur
         IN  Then(get_inode_fblock([m EXCEPT !.cur = @ + k], r, block_end),
                  LAMBDA a :
                     IF a.st # "run" THEN a
                     ELSE IF a.ret # 0 THEN read_bytes(a, a.ret * BlockSize, start, k)
                     ELSE Put(a, start, Zeros(k)))

\* read_at, the symlink whose target lies in the inode body
read_inline(m, r, pos, file_size) ==
    IF inode_type(mode(m, r)) = "Symlink" /\ file_size < INLINE_SIZE
    THEN LET k == take(m, file_size - pos)
             body == m.ino[ino(m, r)].body
         IN  Put([m EXCEPT !.cur = @ + k], m.cur,
                 [j \in 1..k |-> IF pos + j <= Len(body) THEN body[pos + j] ELSE 0])
    ELSE m

\* to_be_read without the clamp
to_be_read_unclamped(n, file_size, pos) == n

\* read_at: to_be_read, the request clamped to the end of the file
to_be_read(n, file_size, pos) == Min(n, file_size - pos)

\* read_at, from the block bounds on: the first block, the full blocks and
\* the last block
read_blocks(m1, r, pos, file_size) ==
    LET block_start == pos \div BlockSize
        block_end == Min(pos + (m1.lim - m1.cur), file_size) \div BlockSize
        offset == pos % BlockSize
    IN  read_last_block(
            read_full_blocks(
                IF offset > 0 THEN read_first_block(m1, r, pos, block_start) ELSE m1,
                r, IF offset > 0 THEN block_start + 1 ELSE block_start, block_end),
            r, block_end)

\* InodeRef::read_at(buf, pos), buf of n bytes
read_at(m0, r, n, pos) ==
    IF m0.st # "run" THEN m0
    ELSE IF pos >= size(m0, r) \/ n = 0
    THEN Ok([m0 EXCEPT !.out = [j \in 1..n |-> UNTOUCHED], !.cur = 0, !.lim = n], 0)
    ELSE Then(read_blocks(
                  read_inline([m0 EXCEPT !.out = [j \in 1..n |-> UNTOUCHED], !.cur = 0,
                                         !.lim = to_be_read(n, size(m0, r), pos)],
                              r, pos, size(m0, r)),
                  r, pos, size(m0, r)),
              LAMBDA m4 : IF m4.st = "run"
                          THEN Ok(m4, to_be_read(n, size(m0, r), pos)) ELSE m4)

\* get_fblock with the block at the block count initialised, not appended
get_fblock_init_at_count(m, r, block, block_count) ==
    IF block <= block_count THEN init_inode_fblock(m, r, block)
    ELSE Then(append_inode_fblock(m, r),
              LAMBDA a : IF a.st # "run" THEN a
                         ELSE IF block # a.ret2 THEN Panic(a)
                         ELSE a)

\* write_at, the closure get_fblock
get_fblock(m, r, block, block_count) ==
    IF block < block_count THEN init_inode_fblock(m, r, block)
    ELSE Then(append_inode_fblock(m, r),
              LAMBDA a : IF a.st # "run" THEN a
                         ELSE IF block # a.ret2 THEN Panic(a)
                         ELSE a)

\* write_at, the partial first block
write_first_block(m, r, pos, block_start, block_count) ==
    LET offset == pos % BlockSize
        k == take(m, BlockSize - offset)
        part == SubSeq(m.buf, m.cur + 1, m.cur + k)
    IN  Then(get_fblock([m EXCEPT !.cur = @ + k], r, block_start, block_count),
             LAMBDA a : IF a.st # "run" THEN a
                        ELSE write_bytes(a, a.ret * BlockSize + offset, part))

\* write_at, the closure flush_fblock_segment
write_flush_fblock_segment(m, start, count) ==
    IF count = 0 THEN m
    ELSE LET k == take(m, count * BlockSize)
             part == SubSeq(m.buf, m.cur + 1, m.cur + k)
         IN  context(ext4_blocks_set_direct([m EXCEPT !.cur = @ + k], part, start, count))

\* write_at, the body of the loop over the full blocks
write_loop_body(m, r, block, block_count) ==
    Then(get_fblock(m, r, block, block_count), LAMBDA a :
    Then(IF a.st # "run" \/ a.ret = a.fblock_start + a.fblock_count THEN a
         ELSE Then(write_flush_fblock_segment(a, a.fblock_start, a.fblock_count),
                   LAMBDA fl : IF fl.st # "run" THEN fl
                               ELSE [fl EXCEPT !.fblock_start = a.ret,
                                               !.fblock_count = 0]),
         LAMBDA b : IF b.st # "run" THEN b ELSE [b EXCEPT !.fblock_count = @ + 1]))

RECURSIVE write_loop(_, _, _, _, _)
write_loop(m, r, block, block_end, block_count) ==
    IF m.st # "run" \/ block >= block_end THEN m
    ELSE write_loop(write_loop_body(m, r, block, block_count),
                    r, block + 1, block_end, block_count)

\* write_at, the full blocks
write_full_blocks(m, r, block_start, block_end, block_count) ==
    IF m.st # "run" THEN m
    ELSE Then(write_loop([m EXCEPT !.fblock_start = 0, !.fblock_count = 0],
                         r, block_start, block_end, block_count),
              LAMBDA a :
                 IF a.st # "run" THEN a
                 ELSE write_flush_fblock_segment(a, a.fblock_start, a.fblock_count))

\* write_at, the partial last block
write_last_block(m, r, block_end, block_count) ==
    IF m.st # "run" THEN m
    ELSE IF ~(m.lim - m.cur < BlockSize) THEN Panic(m)
    ELSE IF m.lim - m.cur = 0 THEN m
    ELSE Then(get_fblock([m EXCEPT !.cur = m.lim], r, block_end, block_count),
              LAMBDA a :
                 IF a.st # "run" THEN a
                 ELSE write_bytes(a, a.ret * BlockSize,
                                  SubSeq(m.buf, m.cur + 1, m.lim)))

\* write_update_size comparing with the size the appends left, not the size
\* at entry
write_update_size_current(m, r, end, file_size) ==
    IF m.st # "run" THEN m
    ELSE IF end > size(m, r)
    THEN mark_dirty(ext4_inode_set_size(m, ino(m, r), end), r)
    ELSE m

\* write_at, the size update after the blocks are written
write_update_size(m, r, end, file_size) ==
    IF m.st # "run" THEN m
    ELSE IF end > file_size
    THEN mark_dirty(ext4_inode_set_size(m, ino(m, r), end), r)
    ELSE m

\* write_at, from to_be_written on: the blocks and the size
write_blocks(m, r, buf, pos, file_size, block_count) ==
    LET to_be_written == Len(buf)
        m1 == [m EXCEPT !.buf = buf, !.cur = 0, !.lim = Len(buf)]
        block_start == pos \div BlockSize
        block_end == (pos + Len(buf)) \div BlockSize
        offset == pos % BlockSize
    IN  Then(write_update_size(
                 write_last_block(
                     write_full_blocks(
                         IF offset > 0
                         THEN write_first_block(m1, r, pos, block_start, block_count)
                         ELSE m1,
                         r, IF offset > 0 THEN block_start + 1 ELSE block_start,
                         block_end, block_count),
                     r, block_end, block_count),
                 r, pos + to_be_written, file_size),
             LAMBDA m5 : IF m5.st = "run" THEN Ok(m5, to_be_written) ELSE m5)

\* InodeRef::write_at(buf, pos)
write_at(m0, r, buf, pos) ==
    IF m0.st # "run" THEN m0
    ELSE
    LET file_size == size(m0, r)
        block_count == DivCeil(file_size, BlockSize)
    IN  Then(IF pos > file_size THEN set_len(m0, r, pos) ELSE m0,
             LAMBDA m : IF m.st # "run" THEN m
                         ELSE IF Len(buf) = 0 THEN Ok(m, 0)
                        ELSE write_blocks(m, r, buf, pos, file_size, block_count))

(***************************************************************************)
(* Filesystem Handle operations (src/src/fs.rs): the reference is a        *)
(* temporary, dropped when the statement ends.                             *)
(***************************************************************************)
fs_read_at(m, i, n, offset) ==
    Then(inode_ref(m, i), LAMBDA a :
        IF a.st # "run" THEN a
        ELSE drop_InodeRef(read_at(a, Len(a.refs), n, offset), Len(a.refs)))

fs_write_at(m, i, buf, offset) ==
    Then(inode_ref(m, i), LAMBDA a :
        IF a.st # "run" THEN a
        ELSE drop_InodeRef(write_at(a, Len(a.refs), buf, offset), Len(a.refs)))

fs_set_symlink(m, i, buf) ==
    Then(inode_ref(m, i), LAMBDA a :
        IF a.st # "run" THEN a
        ELSE drop_InodeRef(set_symlink(a, Len(a.refs), buf), Len(a.refs)))

(***************************************************************************)
(* Link counts, modes and directory entries of an Inode Reference          *)
(* (src/src/inode/mod.rs, attr.rs, dir.rs).                                *)
(***************************************************************************)
inc_nlink(m, r) == mark_dirty(ext4_fs_inode_links_count_inc(m, ino(m, r)), r)
dec_nlink(m, r) == mark_dirty(ext4_fs_inode_links_count_dec(m, ino(m, r)), r)
set_nlink(m, r, n) == mark_dirty([m EXCEPT !.ino[ino(m, r)].nlink = n], r)
nlink(m, r) == m.ino[ino(m, r)].nlink
set_mode(m, r, v) == mark_dirty(ext4_inode_set_mode(m, ino(m, r), v), r)

\* Ext4Filesystem::clone_ref: inode_ref(..).expect(..)
clone_ref(m, r) ==
    IF m.st # "run" THEN m
    ELSE Then(inode_ref(m, ino(m, r)),
              LAMBDA a : IF a.st = "err" THEN Panic(a) ELSE a)

\* Ext4Filesystem::alloc_inode: on Ok the new reference is the last of m.refs
alloc_inode(m, ty) ==
    IF m.st # "run" THEN m
    ELSE Then(context(ext4_fs_alloc_inode(InodeRef_new(m), Len(m.refs) + 1, ty)),
              LAMBDA b : IF b.st # "run" THEN drop_InodeRef(b, Len(b.refs))
                         ELSE ext4_fs_inode_blocks_init(b, Len(b.refs)))

add_entry(m, r, name, entry) ==
    IF m.st # "run" THEN m
    ELSE Then(context(ext4_dir_add_entry(m, r, name, entry)),
              LAMBDA a : IF a.st # "run" THEN a ELSE inc_nlink(a, entry))

remove_entry(m, r, name) ==
    IF m.st # "run" THEN m ELSE context(ext4_dir_remove_entry(m, r, name))

\* InodeRef::lookup(self, name): the reference moves into the result, or is
\* dropped when the entry is not found.  The construction of the result is
\* logged with the directory and the reference it holds.
lookup(m, r, name) ==
    IF m.st # "run" THEN m
    ELSE Then(context(ext4_dir_find_entry(m, r, name)),
              LAMBDA a : IF a.st # "run" THEN drop_InodeRef(a, r)
                         ELSE [Log(a, "DirLookupResult", ino(a, r), r)
                                  EXCEPT !.found = [parent |-> r, dentry |-> a.ret]])

\* DirLookupResult::entry().ino()
entry_ino(m) == m.dir[ino(m, m.found.parent)][m.found.dentry].ino

\* drop_DirLookupResult with the field dropped before the result is destroyed
drop_DirLookupResult_put_first(m) ==
    IF m.st = "panic" THEN m
    ELSE ext4_dir_destroy_result(drop_InodeRef(m, m.found.parent), m.found.parent)

\* impl Drop for DirLookupResult, then the drop of its field parent
drop_DirLookupResult(m) ==
    IF m.st = "panic" THEN m
    ELSE drop_InodeRef(ext4_dir_destroy_result(m, m.found.parent), m.found.parent)

\* InodeRef::read_dir(self, offset)
read_dir(m, r, offset) ==
    IF m.st # "run" THEN m
    ELSE Then(context(ext4_dir_iterator_init(m, r, offset)),
              LAMBDA a : IF a.st # "run" THEN drop_InodeRef(a, r) ELSE a)

\* DirReader::current: the entry under the cursor, or none (an empty record)
current(m) ==
    LET d == m.dir[ino(m, m.iter.parent)]
    IN  IF m.iter.curr # 0 /\ m.iter.curr <= Len(d) THEN d[m.iter.curr]
        ELSE [name |-> "", ino |-> 0]

\* a step that asks the engine for the next entry in any case
step_always_next(m) ==
    IF m.st # "run" THEN m ELSE context(ext4_dir_iterator_next(m))

\* DirReader::step
step(m) ==
    IF m.st # "run" THEN m
    ELSE IF m.iter.curr # 0 THEN context(ext4_dir_iterator_next(m)) ELSE m

\* impl Drop for DirReader, then the drop of its field parent
drop_DirReader(m) ==
    IF m.st = "panic" THEN m
    ELSE drop_InodeRef(ext4_dir_iterator_fini(m), m.iter.parent)

\* has_children, the loop over the entries: ret is 1 for true, 0 for false
RECURSIVE has_children_loop(_)
has_children_loop(m) ==
    IF m.st # "run" THEN m
    ELSE IF current(m).ino = 0 THEN Ok(m, 0)
    ELSE IF current(m).name # "." /\ current(m).name # ".." THEN Ok(m, 1)
    ELSE has_children_loop(step(m))

\* InodeRef::has_children(self)
has_children(m, r) ==
    IF m.st # "run" THEN m
    ELSE IF inode_type(mode(m, r)) # "Directory" THEN drop_InodeRef(Ok(m, 0), r)
    ELSE Then(read_dir(m, r, 0),
              LAMBDA a : IF a.st # "run" THEN a
                         ELSE drop_DirReader(has_children_loop(a)))

(***************************************************************************)
(* Composite directory operations (src/src/fs.rs).  Locals are dropped in  *)
(* the reverse order of their declaration, temporaries at the end of their *)
(* statement.                                                              *)
(***************************************************************************)
fs_lookup(m, parent, name) ==
    Then(inode_ref(m, parent),
         LAMBDA a : IF a.st # "run" THEN a ELSE lookup(a, Len(a.refs), name))

fs_read_dir(m, parent, offset) ==
    Then(inode_ref(m, parent),
         LAMBDA a : IF a.st # "run" THEN a ELSE read_dir(a, Len(a.refs), offset))

\* create_dir_entries with ".." bound to the child itself
create_dir_entries_dotdot_self(m, child, parent) ==
    Then(clone_ref(m, child), LAMBDA t :
    Then(IF t.st # "run" THEN t
         ELSE drop_InodeRef(add_entry(t, child, ".", Len(t.refs)), Len(t.refs)),
         LAMBDA u :
    Then(add_entry(u, child, "..", child), LAMBDA v :
        IF v.st # "run" THEN v ELSE set_nlink(v, child, 2))))

\* create, the statements under `if ty == InodeType::Directory`
create_dir_entries(m, child, parent) ==
    Then(clone_ref(m, child), LAMBDA t :
    Then(IF t.st # "run" THEN t
         ELSE drop_InodeRef(add_entry(t, child, ".", Len(t.refs)), Len(t.refs)),
         LAMBDA u :
    Then(add_entry(u, child, "..", parent), LAMBDA v :
        IF v.st # "run" THEN v ELSE set_nlink(v, child, 2))))

\* create, from add_entry on; child and parent are the references in hand
create_entries(m, parent, child, name, ty, cmode) ==
    Then(add_entry(m, parent, name, child), LAMBDA c :
    Then(IF c.st = "run" /\ ty = "Directory"
         THEN create_dir_entries(c, child, parent) ELSE c,
         LAMBDA d :
            IF d.st # "run" THEN d
            ELSE Ok(set_mode(d, child,
                             (mode(d, child) - (mode(d, child) % 512)) + (cmode % 512)),
                    ino(d, child))))

create(m, parent, name, ty, cmode) ==
    Then(alloc_inode(m, ty), LAMBDA a :
        IF a.st # "run" THEN a
        ELSE Then(inode_ref(a, parent), LAMBDA b :
            IF b.st # "run" THEN drop_InodeRef(b, Len(a.refs))
            ELSE drop_InodeRef(
                     drop_InodeRef(
                         create_entries(b, Len(b.refs), Len(a.refs), name, ty, cmode),
                         Len(b.refs)),
                     Len(a.refs))))

link(m, dir, name, child) ==
    Then(inode_ref(m, child), LAMBDA a :
        IF a.st # "run" THEN a
        ELSE IF is_dir(mode(a, Len(a.refs)))
        THEN drop_InodeRef(Raise(a, EISDIR), Len(a.refs))
        ELSE Then(inode_ref(a, dir), LAMBDA b :
            drop_InodeRef(
                IF b.st # "run" THEN b
                ELSE drop_InodeRef(add_entry(b, Len(b.refs), name, Len(a.refs)),
                                   Len(b.refs)),
                Len(a.refs))))

\* unlink, the link counts once the entry is removed, and the release of
\* the inode
unlink_counts(m, dir_ref, child_ref) ==
    Then(IF is_dir(mode(m, child_ref)) THEN dec_nlink(m, dir_ref) ELSE m, LAMBDA h :
    Then(IF nlink(h, child_ref) > 0 THEN dec_nlink(h, child_ref) ELSE h, LAMBDA i :
        ext4_fs_free_inode(set_nlink(i, child_ref, 0), child_ref)))

\* unlink, from the truncation on
unlink_child(m, dir_ref, child_ref, name) ==
    Then(remove_entry(
             IF inode_type(mode(m, child_ref)) # "Directory"
             THEN truncate(m, child_ref, 0)
             ELSE truncate(truncate(m, child_ref, BlockSize), child_ref, 0),
             dir_ref, name),
         LAMBDA g : IF g.st # "run" THEN g ELSE unlink_counts(g, dir_ref, child_ref))

\* unlink, from the checkout of the child on; dir_ref is the reference to
\* the directory, m.found the entry looked up
unlink_found(m, dir_ref, name) ==
    Then(inode_ref(drop_DirLookupResult(m), entry_ino(m)), LAMBDA d :
        IF d.st # "run" THEN drop_InodeRef(d, dir_ref)
        ELSE Then(clone_ref(d, Len(d.refs)), LAMBDA e0 :
             Then(has_children(e0, Len(e0.refs)), LAMBDA e :
                drop_InodeRef(
                    drop_InodeRef(
                        IF e.st # "run" THEN e
                        ELSE IF e.ret = 1 THEN Raise(e, ENOTEMPTY)
                        ELSE unlink_child(e, dir_ref, Len(d.refs), name),
                        Len(d.refs)),
                    dir_ref))))

unlink(m, dir, name) ==
    Then(inode_ref(m, dir), LAMBDA a :
        IF a.st # "run" THEN a
        ELSE Then(clone_ref(a, Len(a.refs)), LAMBDA b :
             Then(lookup(b, Len(b.refs), name), LAMBDA c :
                IF c.st # "run" THEN drop_InodeRef(c, Len(a.refs))
                ELSE unlink_found(c, Len(a.refs), name))))

\* RawDirEntry::set_ino on the entry of the DirLookupResult in hand
set_ino(m, v) ==
    [m EXCEPT !.dir[ino(m, m.found.parent)][m.found.dentry].ino = v]

\* rename, the statements under `if src_ref.is_dir()`
rename_dotdot(m, src_dir_ref, dst_dir_ref, src_ref, dst_dir) ==
    Then(clone_ref(m, src_ref), LAMBDA t :
    Then(lookup(t, Len(t.refs), ".."), LAMBDA u :
        IF u.st # "run" THEN u
        ELSE drop_DirLookupResult(
                 inc_nlink(dec_nlink(set_ino(u, dst_dir), src_dir_ref), dst_dir_ref))))

\* rename, from `if src_ref.is_dir()` on: the entry leaves src_dir and
\* enters dst_dir
rename_move(m, src_dir_ref, dst_dir_ref, src_ref, src_name, dst_dir, dst_name) ==
    Then(IF is_dir(mode(m, src_ref))
         THEN rename_dotdot(m, src_dir_ref, dst_dir_ref, src_ref, dst_dir) ELSE m,
         LAMBDA g :
            add_entry(remove_entry(g, src_dir_ref, src_name),
                      dst_dir_ref, dst_name, src_ref))

\* rename, from the lookup of the source on
rename_source(m, src_dir_ref, dst_dir_ref, src_dir, src_name, dst_dir, dst_name) ==
    Then(fs_lookup(m, src_dir, src_name), LAMBDA c :
        IF c.st # "run" THEN c
        ELSE Then(inode_ref(drop_DirLookupResult(c), entry_ino(c)), LAMBDA d :
            IF d.st # "run" THEN d
            ELSE drop_InodeRef(
                     rename_move(d, src_dir_ref, dst_dir_ref, Len(d.refs),
                                 src_name, dst_dir, dst_name),
                     Len(d.refs))))

\* rename, the match on the result of unlink: Ok and Err(ENOENT) go on,
\* any other Err is returned
rename_unlinked(m) ==
    IF m.st = "err" /\ m.code = ENOENT THEN [m EXCEPT !.st = "run", !.code = EOK]
    ELSE m

rename(m, src_dir, src_name, dst_dir, dst_name) ==
    Then(inode_ref(m, src_dir), LAMBDA a :
        IF a.st # "run" THEN a
        ELSE Then(inode_ref(a, dst_dir), LAMBDA b :
            drop_InodeRef(
                IF b.st # "run" THEN b
                ELSE drop_InodeRef(
                         Then(rename_unlinked(unlink(b, dst_dir, dst_name)), LAMBDA c :
                             IF c.st # "run" THEN c
                             ELSE Ok(rename_source(c, Len(a.refs), Len(b.refs), src_dir,
                                                   src_name, dst_dir, dst_name), 0)),
                         Len(b.refs)),
                Len(a.refs))))

(***************************************************************************)
(* The record of an operation, kept for the properties.                    *)
(***************************************************************************)
NoInode == [alloc |-> FALSE, mode |-> 0, nlink |-> 0, size |-> 0,
            bmap |-> <<>>, body |-> <<>>, extents |-> FALSE]

NoOp == [op |-> "none", ino |-> 0, pos |-> 0, buf |-> <<>>, n |-> 0,
         name |-> "", ino2 |-> 0, name2 |-> "", ty |-> "Unknown",
         res |-> "ok", val |-> 0, code |-> EOK, failed |-> FALSE,
         out |-> <<>>, log |-> <<>>, failAt |-> 0, ub |-> "ok",
         pre_inodes |-> <<>>, pre_dirs |-> <<>>, pre_disk |-> <<>>, pre_wb |-> 0,
         dirty |-> {}]

\* the inodes whose InodeRef the operation has marked dirty
MarkedDirty(m) == {m.refs[r].index : r \in {k \in 1..Len(m.refs) : m.refs[k].dirty}}

\* the state an operation leaves behind, m being the machine it ended in;
\* the time fields are left to the operation
Return(m, rec) ==
    /\ inodes' = m.ino
    /\ dirs' = m.dir
    /\ disk' = m.disk
    /\ refcnt' = m.rc
    /\ cache_write_back' = m.wb
    /\ panicked' = (m.st = "panic")
    /\ last' = [rec EXCEPT !.res = IF m.st = "run" THEN "ok" ELSE m.st,
                           !.val = IF m.st = "run" THEN m.ret ELSE 0,
                           !.code = IF m.st = "err" THEN m.code ELSE EOK,
                           !.failed = m.failed, !.out = m.out, !.log = m.log,
                           !.pre_inodes = inodes, !.pre_dirs = dirs,
                           !.pre_disk = disk,
                           !.pre_wb = cache_write_back,
                           !.dirty = MarkedDirty(m)]
    /\ nops' = nops + 1
    /\ block_size' = block_size
    /\ attr' = attr
    /\ mount' = mount

Done(m, rec) == Return(m, rec) /\ times' = times

UBs(f) == IF f > 0 THEN {"ok", "crash"} ELSE {"ok"}

(***************************************************************************)
(* The I/O specification: one regular file of any size and block placement *)
(* (holes included), and one read_at or write_at on it through the         *)
(* Filesystem Handle.  The images are all the states of the file within    *)
(* the bounds, so one operation from each covers every reachable state.    *)
(***************************************************************************)
MaxPos == NumFBlocks * BlockSize

\* block maps of n logical blocks: 0 is a hole, no physical block is used twice
InitMaps(n) ==
    {b \in [1..n -> 0..NumFBlocks] :
        \A j, k \in 1..n : (j # k /\ b[j] # 0) => b[j] # b[k]}

\* what the device holds at mount: every byte differs from every other
InitDisk == [f \in 0..NumFBlocks |-> [j \in 1..BlockSize |-> 10 * (f + 1) + j]]

\* the buffers written: every byte differs from the device's and from zero
WriteBufs == {[k \in 1..n |-> 60 + k] : n \in 0..MaxPos}

RootInode == [alloc |-> TRUE, mode |-> S_IFDIR + 493, nlink |-> 2, size |-> BlockSize,
              bmap |-> <<>>, body |-> <<>>, extents |-> TRUE]
RootEntries == << [name |-> ".", ino |-> ROOT], [name |-> "..", ino |-> ROOT] >>

InitIO ==
    /\ block_size = IOBlockSize
    /\ times = NoTimes
    /\ attr = NoAttr
    /\ mount = Mounted
    /\ \E s \in 0..MaxPos : \E b \in InitMaps(DivCeil(s, BlockSize)) :
          inodes = [i \in Inos |->
                      IF i = ROOT THEN RootInode
                      ELSE IF i = FILE
                      THEN [alloc |-> TRUE, mode |-> S_IFREG + 420, nlink |-> 1,
                            size |-> s, bmap |-> b, body |-> <<>>, extents |-> TRUE]
                      ELSE NoInode]
    /\ dirs = [i \in Inos |->
                 IF i = ROOT THEN Append(RootEntries, [name |-> "f", ino |-> FILE])
                 ELSE <<>>]
    /\ disk = InitDisk
    /\ refcnt = [i \in Inos |-> 0]
    /\ cache_write_back = 1
    /\ handles = <<>>
    /\ last = NoOp
    /\ panicked = FALSE
    /\ nops = 0

ReadAt ==
    /\ last.op = "none"
    /\ \E n \in 0..MaxPos, pos \in 0..MaxPos, f \in 0..MaxFailAt :
       \E ub \in UBs(f) :
          LET m0 == [Machine(f, ub, "lo") EXCEPT !.out = [j \in 1..n |-> UNTOUCHED]]
              m == fs_read_at(m0, FILE, n, pos)
          IN  Done(m, [NoOp EXCEPT !.op = "read_at", !.ino = FILE, !.pos = pos, !.n = n])
    /\ UNCHANGED handles

WriteAt ==
    /\ last.op = "none"
    /\ \E buf \in WriteBufs, pos \in 0..MaxPos, f \in 0..MaxFailAt,
          alloc \in {"lo", "hi"} :
       \E ub \in UBs(f) :
          /\ pos + Len(buf) <= MaxPos
          /\ LET m == fs_write_at(Machine(f, ub, alloc), FILE, buf, pos)
             IN  Done(m, [NoOp EXCEPT !.op = "write_at", !.ino = FILE, !.pos = pos,
                                      !.buf = buf, !.n = Len(buf)])
    /\ UNCHANGED handles

NextIO == ReadAt \/ WriteAt

SpecIO == InitIO /\ [][NextIO]_vars

(***************************************************************************)
(* Properties of read_at and write_at, stated on the operation's record.   *)
(***************************************************************************)
\* the byte a file holds at offset o: zero where the block is a hole
ByteAt(tbl, dsk, i, o) ==
    LET fb == MappedBlock(tbl[i], o \div BlockSize)
    IN  IF fb = 0 THEN 0 ELSE dsk[fb][(o % BlockSize) + 1]

\* the engine calls of the last operation that carry one of these names
Calls(names) == {j \in 1..Len(last.log) : last.log[j].call \in names}

PreSize == last.pre_inodes[last.ino].size
Reading == last.op = "read_at"
Writing == last.op = "write_at"

\* what a read_at of n bytes at pos returns in the current state
ReadNow(n, pos) == fs_read_at(Machine(0, "ok", "lo"), last.ino, n, pos)

\* C2: for every offset and buffer, a write_at succeeds and a read_at of the
\* same offset and length right after it succeeds and returns the buffer.
C2_WriteThenReadReturnsBuffer ==
    (Writing /\ ~last.failed) =>
        /\ last.res = "ok"
        /\ LET m == ReadNow(Len(last.buf), last.pos)
           IN  m.st = "run" /\ m.ret = Len(last.buf) /\ m.out = last.buf

\* C3: a read_at whose range holds a hole succeeds when no engine call
\* fails; the bytes of a hole are zero and the others are the stored data.
C3_ReadOverHoleZeroFills ==
    (/\ Reading /\ ~last.failed /\ last.n > 0
     /\ \E o \in last.pos..(Min(last.pos + last.n, PreSize) - 1) :
           MappedBlock(last.pre_inodes[last.ino], o \div BlockSize) = 0)
    => /\ last.res = "ok"
       /\ last.val = Min(last.n, PreSize - last.pos)
       /\ \A j \in 1..last.val :
             last.out[j] = ByteAt(last.pre_inodes, last.pre_disk, last.ino,
                                  last.pos + j - 1)

\* a read over two blocks stored one after the other and then a hole
C3_Witness ==
    /\ Reading /\ last.res = "ok"
    /\ \E b \in 0..(NumFBlocks - 3) :
         LET inode == last.pre_inodes[last.ino]
         IN  /\ MappedBlock(inode, b) # 0
             /\ MappedBlock(inode, b + 1) = MappedBlock(inode, b) + 1
             /\ MappedBlock(inode, b + 2) = 0
             /\ last.pos <= b * BlockSize
             /\ last.pos + last.val >= (b + 3) * BlockSize
             /\ last.out[(b + 2) * BlockSize - last.pos + 1] = 0
             /\ last.out[b * BlockSize - last.pos + 1] # 0

\* C4: a write_at past the end of the file succeeds, the size becomes
\* offset + length and the gap reads as zeros.
C4_WritePastEndZeroGap ==
    (Writing /\ ~last.failed /\ last.pos > PreSize) =>
        /\ last.res = "ok"
        /\ inodes[last.ino].size = last.pos + Len(last.buf)
        /\ LET m == ReadNow(last.pos - PreSize, PreSize)
           IN  /\ m.st = "run"
               /\ m.out = [j \in 1..(last.pos - PreSize) |-> 0]

\* the count read_at is to return for the last read
WantRead ==
    IF last.pos >= PreSize \/ last.n = 0 THEN 0 ELSE Min(last.n, PreSize - last.pos)

\* C5: read_at returns 0 without error at or past the end of the file and
\* for an empty buffer; otherwise min(len, size - pos); it writes exactly
\* that many leading bytes and none past them.
C5_ReadClampedToSize ==
    Reading =>
        /\ ~last.failed =>
              /\ last.res = "ok"
              /\ last.val = WantRead
              /\ \A j \in 1..WantRead : last.out[j] # UNTOUCHED
        /\ \A j \in 1..last.n : j > WantRead => last.out[j] = UNTOUCHED

\* a read clamped by the end of the file, and one at the end of the file
C5_Witness ==
    /\ Reading /\ last.res = "ok"
    /\ last.pos > 0 /\ last.pos < PreSize /\ last.n > PreSize - last.pos
    /\ last.val = PreSize - last.pos
    /\ last.out[last.val] # UNTOUCHED /\ last.out[last.val + 1] = UNTOUCHED

\* C6: a successful write_at returns the buffer's length and leaves the
\* size at max(size before, pos + length), also when an append moved it.
C6_WriteSizeIsMax ==
    (Writing /\ last.res = "ok") =>
        /\ last.val = Len(last.buf)
        /\ inodes[last.ino].size = Max(PreSize, last.pos + Len(last.buf))

\* a write that appended a block and ends inside it
C6_Witness ==
    /\ Writing /\ last.res = "ok"
    /\ Calls({"ext4_fs_append_inode_dblk"}) # {}
    /\ (last.pos + Len(last.buf)) % BlockSize # 0
    /\ inodes[last.ino].size = last.pos + Len(last.buf)

\* the effects an empty write must not have
EmptyWriteIsNoop ==
    /\ last.res = "ok"
    /\ last.val = 0
    /\ Calls({"ext4_fs_get_inode_dblk_idx", "ext4_fs_init_inode_dblk_idx",
              "ext4_fs_append_inode_dblk", "ext4_block_writebytes",
              "ext4_blocks_set_direct"}) = {}
    /\ inodes = last.pre_inodes
    /\ disk = last.pre_disk

\* C7, every offset: a write_at of an empty buffer is a no-op wherever it
\* is issued, past the end of the file included.
C7_EmptyWriteNoopEveryOffset ==
    (Writing /\ ~last.failed /\ Len(last.buf) = 0) => EmptyWriteIsNoop

\* C7, offsets within the file: a write_at of an empty buffer at an offset up to the size
\* of the file is a no-op: it returns 0, looks up, appends and writes no
\* block, and leaves size and mapping as they were.
C7_EmptyWriteNoopWithinFile ==
    (Writing /\ ~last.failed /\ Len(last.buf) = 0 /\ last.pos <= PreSize)
    => EmptyWriteIsNoop

\* an empty write inside a block of a file that has one
C7_Witness ==
    /\ Writing /\ last.res = "ok" /\ Len(last.buf) = 0
    /\ last.pos % BlockSize # 0 /\ last.pos <= PreSize

(***************************************************************************)
(* The directory specification: a root directory holding a file "f" with   *)
(* content and a directory "d", which is empty or holds a second name "g"  *)
(* of the file; create, link, unlink, lookup and read_dir through the      *)
(* Filesystem Handle, and the drop of the values lookup and read_dir       *)
(* return.  Inodes are named by callers only while allocated, directories  *)
(* only while they are directories; create and link are given names the    *)
(* directory does not hold.                                                *)
(***************************************************************************)
OpNames == {"a", "d", "f", "g"}
CreateTypes == {"Directory", "RegularFile", "Symlink"}
CreateModes == {420, 493}

IsDirInode(inode) == inode.alloc /\ (inode.mode \div 4096) * 4096 = S_IFDIR
DirInodes == {i \in Inos : IsDirInode(inodes[i])}
AllocInodes == {i \in Inos : inodes[i].alloc}
EntryNames(d) == {d[k].name : k \in 1..Len(d)}

Init ==
    /\ block_size = IOBlockSize
    /\ times = NoTimes
    /\ attr = NoAttr
    /\ mount = Mounted
    /\ \E hard \in BOOLEAN :
        /\ inodes = [i \in Inos |->
              IF i = ROOT
              THEN [alloc |-> TRUE, mode |-> S_IFDIR + 493, nlink |-> 3,
                    size |-> BlockSize, bmap |-> <<>>, body |-> <<>>, extents |-> TRUE]
              ELSE IF i = FILE
              THEN [alloc |-> TRUE, mode |-> S_IFREG + 420,
                    nlink |-> IF hard THEN 2 ELSE 1,
                    size |-> BlockSize + 1, bmap |-> <<1, 2>>, body |-> <<>>, extents |-> TRUE]
              ELSE IF i = SUBDIR
              THEN [alloc |-> TRUE, mode |-> S_IFDIR + 493, nlink |-> 2,
                    size |-> BlockSize, bmap |-> <<>>, body |-> <<>>, extents |-> TRUE]
              ELSE NoInode]
        /\ dirs = [i \in Inos |->
              IF i = ROOT
              THEN RootEntries \o << [name |-> "f", ino |-> FILE],
                                     [name |-> "d", ino |-> SUBDIR] >>
              ELSE IF i = SUBDIR
              THEN << [name |-> ".", ino |-> SUBDIR], [name |-> "..", ino |-> ROOT] >>
                   \o (IF hard THEN << [name |-> "g", ino |-> FILE] >> ELSE << >>)
              ELSE <<>>]
    /\ disk = InitDisk
    /\ refcnt = [i \in Inos |-> 0]
    /\ cache_write_back = 1
    /\ handles = <<>>
    /\ last = NoOp
    /\ panicked = FALSE
    /\ nops = 0

Create ==
    /\ ~panicked /\ nops < MaxOps
    /\ \E parent \in DirInodes, name \in OpNames, ty \in CreateTypes,
          cmode \in CreateModes, f \in 0..MaxFailAt :
       \E ub \in UBs(f) :
          /\ name \notin EntryNames(dirs[parent])
          /\ Done(create(Machine(f, ub, "lo"), parent, name, ty, cmode),
                  [NoOp EXCEPT !.op = "create", !.ino = parent, !.name = name,
                               !.ty = ty, !.pos = cmode])
    /\ UNCHANGED handles

Link ==
    /\ ~panicked /\ nops < MaxOps
    /\ \E dir \in DirInodes, name \in OpNames, child \in AllocInodes,
          f \in 0..MaxFailAt :
       \E ub \in UBs(f) :
          /\ name \notin EntryNames(dirs[dir])
          /\ Done(link(Machine(f, ub, "lo"), dir, name, child),
                  [NoOp EXCEPT !.op = "link", !.ino = dir, !.name = name,
                               !.ino2 = child])
    /\ UNCHANGED handles

Unlink ==
    /\ ~panicked /\ nops < MaxOps
    /\ \E dir \in DirInodes, name \in OpNames, f \in 0..MaxFailAt :
       \E ub \in UBs(f) :
          Done(unlink(Machine(f, ub, "lo"), dir, name),
               [NoOp EXCEPT !.op = "unlink", !.ino = dir, !.name = name])
    /\ UNCHANGED handles

\* the value a lookup or read_dir hands to its caller, who holds it
Handle(kind, m, r, pos) ==
    [kind |-> kind, ino |-> ino(m, r), pos |-> pos,
     curr |-> IF kind = "reader" THEN m.iter.curr ELSE 0]

\* the end of a lookup: on Ok the caller holds the DirLookupResult
LookupDone(m, rec) ==
    IF m.st = "run"
    THEN /\ Done(Ok(m, entry_ino(m)), rec)
         /\ handles' = Append(handles,
                Handle("lookup", m, m.found.parent, m.found.dentry))
    ELSE Done(m, rec) /\ UNCHANGED handles

\* the end of a read_dir: on Ok the caller holds the DirReader
ReadDirDone(m, rec) ==
    IF m.st = "run"
    THEN /\ Done(Ok(m, current(m).ino), rec)
         /\ handles' = Append(handles, Handle("reader", m, m.iter.parent, m.iter.off))
    ELSE Done(m, rec) /\ UNCHANGED handles

\* the machine that holds only the value h of the caller
Holding(h, f) ==
    [Machine(f, "ok", "lo") EXCEPT
        !.refs = << [index |-> h.ino, dirty |-> FALSE, live |-> TRUE] >>,
        !.found = [parent |-> 1, dentry |-> h.pos],
        !.iter = [parent |-> 1, off |-> h.pos, curr |-> h.curr]]

Lookup ==
    /\ ~panicked /\ nops < MaxOps /\ Len(handles) < MaxHandles
    /\ \E parent \in DirInodes, name \in OpNames \cup {".", ".."},
          f \in 0..MaxFailAt :
       \E ub \in UBs(f) :
          LookupDone(fs_lookup(Machine(f, ub, "lo"), parent, name),
                     [NoOp EXCEPT !.op = "lookup", !.ino = parent, !.name = name])

ReadDir ==
    /\ ~panicked /\ nops < MaxOps /\ Len(handles) < MaxHandles
    /\ \E parent \in DirInodes, f \in 0..MaxFailAt :
       \E offset \in 0..Len(dirs[parent]), ub \in UBs(f) :
          ReadDirDone(fs_read_dir(Machine(f, ub, "lo"), parent, offset),
                      [NoOp EXCEPT !.op = "read_dir", !.ino = parent, !.pos = offset])

\* the caller drops the value it got last
DropHandle ==
    /\ ~panicked /\ handles # <<>>
    /\ \E f \in 0..1 :
          LET h == handles[Len(handles)]
          IN  /\ Done(IF h.kind = "lookup" THEN drop_DirLookupResult(Holding(h, f))
                      ELSE drop_DirReader(Holding(h, f)),
                      [NoOp EXCEPT !.op = "drop", !.ino = h.ino])
              /\ handles' = SubSeq(handles, 1, Len(handles) - 1)

Next == Create \/ Link \/ Unlink \/ Lookup \/ ReadDir \/ DropHandle

Spec == Init /\ [][Next]_vars

(***************************************************************************)
(* Properties of the directory operations and of the Inode References.     *)
(***************************************************************************)
\* lookup(dir, name) succeeds in the current state and resolves to target
Resolves(dir, name, target) ==
    LET m == fs_lookup(Machine(0, "ok", "lo"), dir, name)
    IN  m.st = "run" /\ entry_ino(m) = target

\* the inode the last operation's name was bound to before it ran, 0 if none
PreTarget ==
    LET d == last.pre_dirs[last.ino]
    IN  IF FindEntry(d, last.name) = 0 THEN 0 ELSE d[FindEntry(d, last.name)].ino

\* the references to inode i that callers hold
LiveRefs(i) == {k \in 1..Len(handles) : handles[k].ino = i}

\* C1: over any sequence of operations, failing engine calls included,
\* ext4_fs_put_inode_ref is issued once for every successful checkout and
\* never for a checkout that failed, so the engine's reference count of
\* every inode equals the number of live Inode References to it.
C1_PutOncePerCheckout ==
    /\ \A j \in 1..Len(last.log) :
          last.log[j].call = "ext4_fs_put_inode_ref" => last.log[j].a # 0
    /\ ~panicked => \A i \in Inos : refcnt[i] = Cardinality(LiveRefs(i))

\* C8: after a successful create of a directory the child has link count
\* 2, "." in it resolves to the child, ".." to the parent, and the name in
\* the parent to the child.
C8_CreateDirectoryLinks ==
    (last.op = "create" /\ last.ty = "Directory" /\ last.res = "ok") =>
        /\ inodes[last.val].nlink = 2
        /\ Resolves(last.val, ".", last.val)
        /\ Resolves(last.val, "..", last.ino)
        /\ Resolves(last.ino, last.name, last.val)

\* a directory created in a directory other than the root
C8_Witness ==
    /\ last.op = "create" /\ last.ty = "Directory" /\ last.res = "ok"
    /\ last.ino # ROOT /\ last.val # last.ino
    /\ inodes[last.val].alloc

\* the entries of a directory other than "." and ".."
Children(d) == {k \in 1..Len(d) : d[k].name # "." /\ d[k].name # ".."}

\* C9: unlink of a name bound to a directory that holds an entry other
\* than "." and ".." fails with ENOTEMPTY; of a directory that holds only
\* those it succeeds, the name is no longer found in dir and dir's link
\* count is one less than before.
C9_UnlinkDirectory ==
    (/\ last.op = "unlink" /\ ~last.failed /\ PreTarget # 0
     /\ IsDirInode(last.pre_inodes[PreTarget]))
    => IF Children(last.pre_dirs[PreTarget]) # {}
       THEN last.res = "err" /\ last.code = ENOTEMPTY
       ELSE /\ last.res = "ok"
            /\ FindEntry(dirs[last.ino], last.name) = 0
            /\ inodes[last.ino].nlink = last.pre_inodes[last.ino].nlink - 1

\* the names other than the last operation's that were bound to inode t
OtherNames(t) ==
    {<<i, k>> \in Inos \X (1..4 * MaxOps + 4) :
        /\ k <= Len(last.pre_dirs[i])
        /\ last.pre_dirs[i][k].ino = t
        /\ ~(i = last.ino /\ last.pre_dirs[i][k].name = last.name)}

\* C10: unlink frees an inode only when its link count reaches zero: with
\* two entries and one of them unlinked, the inode stays allocated, its
\* content and size are as before, its link count is one less, and it is
\* resolvable and readable through the other name.
C10_UnlinkKeepsLinkedInode ==
    (/\ last.op = "unlink" /\ last.res = "ok" /\ PreTarget # 0
     /\ ~IsDirInode(last.pre_inodes[PreTarget])
     /\ last.pre_inodes[PreTarget].nlink = 2
     /\ OtherNames(PreTarget) # {})
    => /\ inodes[PreTarget].alloc
       /\ inodes[PreTarget].size = last.pre_inodes[PreTarget].size
       /\ inodes[PreTarget].bmap = last.pre_inodes[PreTarget].bmap
       /\ disk = last.pre_disk
       /\ inodes[PreTarget].nlink = 1
       /\ \A e \in OtherNames(PreTarget) :
             Resolves(e[1], last.pre_dirs[e[1]][e[2]].name, PreTarget)
       /\ LET m == fs_read_at(Machine(0, "ok", "lo"), PreTarget,
                              last.pre_inodes[PreTarget].size, 0)
          IN  m.st = "run" /\ m.ret = last.pre_inodes[PreTarget].size

(***************************************************************************)
(* The rename specification: a root directory holding the file "f", the    *)
(* directory "d" (empty or holding a second name "g" of the file) and,     *)
(* in some images, the empty directory "e"; one rename from every image,   *)
(* with every engine call of it failing in turn.                           *)
(***************************************************************************)
DIR2 == ROOT + 3
RenameNames == {"a", "d", "e", "f", "g"}

DirInode(links) == [alloc |-> TRUE, mode |-> S_IFDIR + 493, nlink |-> links,
                    size |-> BlockSize, bmap |-> <<>>, body |-> <<>>, extents |-> TRUE]
DotEntries(self, parent) ==
    << [name |-> ".", ino |-> self], [name |-> "..", ino |-> parent] >>

InitRename ==
    /\ block_size = IOBlockSize
    /\ times = NoTimes
    /\ attr = NoAttr
    /\ mount = Mounted
    /\ \E hard \in BOOLEAN, second \in BOOLEAN :
        /\ inodes = [i \in Inos |->
              IF i = ROOT THEN DirInode(IF second THEN 4 ELSE 3)
              ELSE IF i = FILE
              THEN [alloc |-> TRUE, mode |-> S_IFREG + 420,
                    nlink |-> IF hard THEN 2 ELSE 1,
                    size |-> BlockSize + 1, bmap |-> <<1, 2>>, body |-> <<>>, extents |-> TRUE]
              ELSE IF i = SUBDIR THEN DirInode(2)
              ELSE IF second THEN DirInode(2) ELSE NoInode]
        /\ dirs = [i \in Inos |->
              IF i = ROOT
              THEN RootEntries \o << [name |-> "f", ino |-> FILE],
                                     [name |-> "d", ino |-> SUBDIR] >>
                   \o (IF second THEN << [name |-> "e", ino |-> DIR2] >> ELSE << >>)
              ELSE IF i = SUBDIR
              THEN DotEntries(SUBDIR, ROOT)
                   \o (IF hard THEN << [name |-> "g", ino |-> FILE] >> ELSE << >>)
              ELSE IF i = DIR2 /\ second THEN DotEntries(DIR2, ROOT)
              ELSE <<>>]
    /\ disk = InitDisk
    /\ refcnt = [i \in Inos |-> 0]
    /\ cache_write_back = 1
    /\ handles = <<>>
    /\ last = NoOp
    /\ panicked = FALSE
    /\ nops = 0

Rename ==
    /\ last.op = "none"
    /\ \E src_dir \in DirInodes, dst_dir \in DirInodes, src_name \in RenameNames,
          dst_name \in RenameNames, f \in 0..MaxRenameFailAt :
       \E ub \in UBs(f) :
          Done(rename(Machine(f, ub, "lo"), src_dir, src_name, dst_dir, dst_name),
               [NoOp EXCEPT !.op = "rename", !.ino = src_dir, !.name = src_name,
                            !.ino2 = dst_dir, !.name2 = dst_name,
                            !.failAt = f, !.ub = ub])
    /\ UNCHANGED handles

NextRename == Rename

SpecRename == InitRename /\ [][NextRename]_vars

(***************************************************************************)
(* Properties of rename.                                                   *)
(***************************************************************************)
Renaming == last.op = "rename"

\* lookup(dir, name) fails with not-found in the current state
NotFound(dir, name) ==
    LET m == fs_lookup(Machine(0, "ok", "lo"), dir, name)
    IN  m.st = "err" /\ m.code = ENOENT

\* C11: after a successful rename(src_dir, a, dst_dir, b), b in dst_dir
\* resolves to the inode a in src_dir resolved to before, a is not found in
\* src_dir, and ".." of a moved directory resolves to dst_dir.
C11_RenameMovesEntry ==
    (Renaming /\ last.res = "ok") =>
        /\ PreTarget # 0
        /\ Resolves(last.ino2, last.name2, PreTarget)
        /\ NotFound(last.ino, last.name)
        /\ IsDirInode(last.pre_inodes[PreTarget]) =>
               Resolves(PreTarget, "..", last.ino2)

\* the same for the renames that move something other than a directory
RenameMovesNonDirectory ==
    (Renaming /\ last.res = "ok" /\ ~IsDirInode(last.pre_inodes[PreTarget])) =>
        /\ PreTarget # 0
        /\ Resolves(last.ino2, last.name2, PreTarget)
        /\ NotFound(last.ino, last.name)

\* the machine of the last rename once both directories are checked out,
\* and the one its removal of the destination name ends in
RenameCheckedOut ==
    inode_ref(inode_ref([Machine(last.failAt, last.ub, "lo") EXCEPT
                            !.ino = last.pre_inodes, !.dir = last.pre_dirs,
                            !.disk = last.pre_disk, !.wb = last.pre_wb],
                        last.ino),
              last.ino2)
RenameUnlinkStep == unlink(RenameCheckedOut, last.ino2, last.name2)

\* the inode the destination name was bound to before the rename, 0 if none
PreDestination ==
    LET d == last.pre_dirs[last.ino2]
    IN  IF FindEntry(d, last.name2) = 0 THEN 0 ELSE d[FindEntry(d, last.name2)].ino

\* the source entry, the source inode and the link counts of both
\* directories are as before the rename
RenameSourceUntouched ==
    /\ IF PreTarget = 0 THEN FindEntry(dirs[last.ino], last.name) = 0
       ELSE Resolves(last.ino, last.name, PreTarget)
    /\ PreTarget # 0 => inodes[PreTarget] = last.pre_inodes[PreTarget]
    /\ inodes[last.ino].nlink = last.pre_inodes[last.ino].nlink
    /\ inodes[last.ino2].nlink = last.pre_inodes[last.ino2].nlink

\* an error of the destination removal other than not-found is returned
\* with its code and the source is untouched
RenameReturnsUnlinkError ==
    (/\ Renaming /\ RenameCheckedOut.st = "run"
     /\ RenameUnlinkStep.st = "err" /\ RenameUnlinkStep.code # ENOENT)
    => /\ last.res = "err" /\ last.code = RenameUnlinkStep.code
       /\ RenameSourceUntouched

\* not-found at the destination is suppressed: the rename goes on to look
\* the source up
RenameSuppressesNotFound ==
    (/\ Renaming /\ RenameCheckedOut.st = "run"
     /\ RenameUnlinkStep.st = "err" /\ RenameUnlinkStep.code = ENOENT)
    => Len(last.log) > Len(RenameUnlinkStep.log)

\* a destination that is a directory holding entries makes the rename fail
\* with ENOTEMPTY, the source untouched
RenameOntoPopulatedDirectory ==
    (/\ Renaming /\ ~last.failed /\ PreDestination # 0
     /\ IsDirInode(last.pre_inodes[PreDestination])
     /\ Children(last.pre_dirs[PreDestination]) # {})
    => /\ last.res = "err" /\ last.code = ENOTEMPTY
       /\ RenameSourceUntouched

\* C12: in rename only a not-found outcome of removing the destination
\* name is suppressed; any other error of that step (not-empty for a
\* populated destination directory) is returned with its code, the source
\* entry, the source inode and both directories' link counts unchanged.
C12_RenameDestinationErrors ==
    /\ RenameSuppressesNotFound
    /\ RenameReturnsUnlinkError
    /\ RenameOntoPopulatedDirectory

(***************************************************************************)
(* Properties of link.                                                     *)
(***************************************************************************)
Linking == last.op = "link"

\* the link counts of all inodes are as before the last operation
LinkCountsUnchanged ==
    \A i \in Inos : inodes[i].nlink = last.pre_inodes[i].nlink

\* link of a directory: EISDIR, no entry and no link count changed
LinkRejectsDirectory ==
    (Linking /\ ~last.failed /\ IsDirInode(last.pre_inodes[last.ino2]))
    => /\ last.res = "err" /\ last.code = EISDIR
       /\ dirs = last.pre_dirs
       /\ LinkCountsUnchanged

\* link of another inode: on Ok the name resolves to the child and its
\* link count is one more; the count moves if and only if the entry is added
LinkAddsEntryWithCount ==
    (Linking /\ ~IsDirInode(last.pre_inodes[last.ino2]))
    => /\ last.res = "ok" =>
             /\ Resolves(last.ino, last.name, last.ino2)
             /\ inodes[last.ino2].nlink = last.pre_inodes[last.ino2].nlink + 1
       /\ IF dirs[last.ino] = last.pre_dirs[last.ino]
          THEN inodes[last.ino2].nlink = last.pre_inodes[last.ino2].nlink
          ELSE inodes[last.ino2].nlink = last.pre_inodes[last.ino2].nlink + 1
       /\ (Calls({"ext4_dir_add_entry"}) # {} /\ last.res = "err")
             => dirs = last.pre_dirs /\ LinkCountsUnchanged

\* C13: link fails with EISDIR and changes no entry and no link count when
\* child is a directory; for another child an accepted entry resolves to
\* the child, whose link count is one more; a rejected entry leaves the
\* count as it was.
C13_LinkEntryAndCount == LinkRejectsDirectory /\ LinkAddsEntryWithCount

(***************************************************************************)
(* The symlink specification: a root directory holding the symlink "l",    *)
(* which is fresh (as create leaves it), or holds a target in its inode    *)
(* body, or holds a target in a block; one set_symlink or one read_at on   *)
(* it from every image.  The block size is larger than the block-pointer   *)
(* area of the inode, as every ext4 block size is.                         *)
(***************************************************************************)
SYMLINK == ROOT + 1

\* the target of n bytes whose k-th byte is base + k
Target(n, base) == [k \in 1..n |-> base + k]

\* lengths of the target the symlink of an image holds: in the inode body
\* or in a block; -1 for the fresh symlink
ImageLens == {-1, 1, 2, INLINE_SIZE - 1, INLINE_SIZE, SymBlockSize}

SymlinkInode(len) ==
    [alloc |-> TRUE, mode |-> S_IFLNK + 511, nlink |-> 1,
     size |-> IF len < 0 THEN 0 ELSE len,
     bmap |-> IF len >= INLINE_SIZE THEN <<1>> ELSE <<>>,
     body |-> IF len >= 0 /\ len < INLINE_SIZE THEN Target(len, 170) ELSE <<>>,
     extents |-> len < 0 \/ len >= INLINE_SIZE]

InitSym ==
    /\ block_size = SymBlockSize
    /\ times = NoTimes
    /\ attr = NoAttr
    /\ mount = Mounted
    /\ \E len \in ImageLens :
        /\ inodes = [i \in Inos |->
                        IF i = ROOT THEN RootInode
                        ELSE IF i = SYMLINK THEN SymlinkInode(len)
                        ELSE NoInode]
        /\ disk = [f \in 0..NumFBlocks |->
                      IF f = 1 /\ len >= INLINE_SIZE
                      THEN [j \in 1..BlockSize |->
                               IF j <= len THEN 170 + j ELSE InitDisk[f][j]]
                      ELSE InitDisk[f]]
    /\ dirs = [i \in Inos |->
                 IF i = ROOT THEN Append(RootEntries, [name |-> "l", ino |-> SYMLINK])
                 ELSE <<>>]
    /\ refcnt = [i \in Inos |-> 0]
    /\ cache_write_back = 1
    /\ handles = <<>>
    /\ last = NoOp
    /\ panicked = FALSE
    /\ nops = 0

SetSymlink ==
    /\ last.op = "none"
    /\ \E n \in 0..(BlockSize + 1), f \in 0..MaxSymFailAt, alloc \in {"lo", "hi"} :
       \E ub \in UBs(f) :
          Done(fs_set_symlink(Machine(f, ub, alloc), SYMLINK, Target(n, 100)),
               [NoOp EXCEPT !.op = "set_symlink", !.ino = SYMLINK,
                            !.buf = Target(n, 100), !.n = n, !.failAt = f, !.ub = ub])
    /\ UNCHANGED handles

\* lengths of the buffers read from a symlink of sz bytes
SymReadLens(sz) == {0, 1, 2, sz, sz + 1}

ReadSymlink ==
    /\ last.op = "none"
    /\ \E pos \in 0..inodes[SYMLINK].size, n \in SymReadLens(inodes[SYMLINK].size),
          f \in 0..MaxFailAt :
       \E ub \in UBs(f) :
          Done(fs_read_at([Machine(f, ub, "lo") EXCEPT !.out = [j \in 1..n |-> UNTOUCHED]],
                          SYMLINK, n, pos),
               [NoOp EXCEPT !.op = "read_at", !.ino = SYMLINK, !.pos = pos, !.n = n])
    /\ UNCHANGED handles

NextSym == SetSymlink \/ ReadSymlink

SpecSym == InitSym /\ [][NextSym]_vars

(***************************************************************************)
(* Properties of set_symlink and of read_at on a symlink.                  *)
(***************************************************************************)
SettingSymlink == last.op = "set_symlink"

\* C14: set_symlink of a target longer than the block size fails with code
\* 36 before any engine call of the operation, leaving the inode body,
\* flags, size and block mapping as they were; a target of exactly one
\* block is accepted.  (The calls logged are the checkout and the put of
\* the Filesystem Handle's reference around the operation.)
C14_SymlinkTooLong ==
    /\ (SettingSymlink /\ ~last.failed /\ last.n > BlockSize) =>
          /\ last.res = "err" /\ last.code = ENAMETOOLONG
          /\ Calls({"ext4_fs_get_inode_ref", "ext4_fs_put_inode_ref"}) = 1..Len(last.log)
          /\ inodes = last.pre_inodes
          /\ disk = last.pre_disk
    /\ (SettingSymlink /\ ~last.failed /\ last.n = BlockSize) =>
          /\ last.res = "ok"
          /\ inodes[last.ino].size = last.n

\* a target of one byte more than a block is refused
C14_Witness ==
    /\ SettingSymlink /\ last.n = BlockSize + 1 /\ last.res = "err"
    /\ last.code = ENAMETOOLONG /\ last.pre_inodes[last.ino].size > 0

\* set_symlink returned Ok and none of its engine calls failed
SymlinkSet == SettingSymlink /\ ~last.failed /\ last.res = "ok"

\* the first n elements of seq (all of them when it is shorter)
Prefix(seq, n) == [j \in 1..Min(n, Len(seq)) |-> seq[j]]

\* the target lies in the inode body, the extents flag is clear and no block
\* was appended
StoredInline ==
    /\ Prefix(inodes[last.ino].body, last.n) = last.buf
    /\ ~inodes[last.ino].extents
    /\ Calls({"ext4_fs_append_inode_dblk"}) = {}
    /\ disk = last.pre_disk

\* the blocks mapped by the symlink now and not before the operation
NewBlocks ==
    LET pre == last.pre_inodes[last.ino].bmap
        now == inodes[last.ino].bmap
    IN  {now[b] : b \in 1..Len(now)} \ ({pre[b] : b \in 1..Len(pre)} \cup {0})

\* exactly one block was appended and it holds the target
StoredInBlock ==
    /\ Cardinality(Calls({"ext4_fs_append_inode_dblk"})) = 1
    /\ Cardinality(NewBlocks) = 1
    /\ \A f \in NewBlocks : Prefix(disk[f], last.n) = last.buf

\* C15, as stated: a target of at most INLINE_SIZE bytes is stored inline,
\* a longer one (up to one block) in one appended block; the size is the
\* length of the target in both cases.
C15_InlineAtMostCapacity ==
    SymlinkSet =>
        /\ inodes[last.ino].size = last.n
        /\ IF last.n <= INLINE_SIZE THEN StoredInline ELSE StoredInBlock

\* C15, with the threshold of the code: a target of fewer than INLINE_SIZE
\* bytes is written into the inode body, the extents flag is cleared and no
\* block is appended; a target of INLINE_SIZE bytes up to one block gets
\* exactly one appended block, which holds the target; the size is the
\* length of the target in both cases.
C15_InlineBelowCapacity ==
    SymlinkSet =>
        /\ inodes[last.ino].size = last.n
        /\ IF last.n < INLINE_SIZE THEN StoredInline ELSE StoredInBlock

\* a target of INLINE_SIZE bytes was set on a symlink that held a shorter
\* one
C15_Witness ==
    /\ SymlinkSet /\ last.n = INLINE_SIZE /\ StoredInBlock
    /\ last.pre_inodes[last.ino].size = INLINE_SIZE - 1

\* a read_at of a non-empty buffer inside a symlink whose target is stored
\* inline, none of whose engine calls failed
ReadingInline ==
    /\ Reading /\ ~last.failed
    /\ (last.pre_inodes[last.ino].mode \div 4096) * 4096 = S_IFLNK
    /\ PreSize < INLINE_SIZE
    /\ last.pos < PreSize /\ last.n > 0

\* C16: read_at on a symlink stored inline returns the bytes of the target
\* from pos on, taken from the inode body, and issues no block lookup, no
\* block allocation and no block read.
C16_InlineSymlinkRead ==
    ReadingInline =>
        /\ last.res = "ok"
        /\ last.val = Min(last.n, PreSize - last.pos)
        /\ \A j \in 1..Min(last.n, PreSize - last.pos) :
              last.out[j] = last.pre_inodes[last.ino].body[last.pos + j]
        /\ Calls({"ext4_fs_get_inode_dblk_idx", "ext4_fs_init_inode_dblk_idx",
                  "ext4_fs_append_inode_dblk", "ext4_block_readbytes",
                  "ext4_blocks_get_direct"}) = {}

(***************************************************************************)
(* The timestamp specification: the three time fields of one inode, each   *)
(* set at most once with set_atime, set_mtime or set_ctime, and then       *)
(* get_attr on the inode.                                                  *)
(***************************************************************************)
\* seconds below 2^34: no bit, the lowest bit, the highest bit of the low
\* word, each of the two epoch bits, and all of them
TimeSecs == {WordOfBits(S, 64) : S \in {{}, {0}, {31}, {32}, {33}, {0, 31, 32, 33}}}

\* nanoseconds below NANOS_PER_SEC
TimeNanos == {0, NANOS_PER_SEC - 1}

Durations == {[secs |-> sec, nanos |-> nsec] : sec \in TimeSecs, nsec \in TimeNanos}

InitTime ==
    /\ block_size = IOBlockSize
    /\ \E big_endian \in BOOLEAN : times = [NoTimes EXCEPT !.big_endian = big_endian]
    /\ attr = NoAttr
    /\ mount = Mounted
    /\ inodes = [i \in Inos |-> IF i = ROOT THEN RootInode ELSE NoInode]
    /\ disk = InitDisk
    /\ dirs = [i \in Inos |-> IF i = ROOT THEN RootEntries ELSE <<>>]
    /\ refcnt = [i \in Inos |-> 0]
    /\ cache_write_back = 1
    /\ handles = <<>>
    /\ last = NoOp
    /\ panicked = FALSE
    /\ nops = 0

SetTime(f, op) ==
    /\ last.op # "get_attr"
    /\ times.given[f] = NoDuration
    /\ \E dur \in Durations : times' = set_time(times, f, dur)
    /\ last' = [NoOp EXCEPT !.op = op, !.ino = ROOT]
    /\ UNCHANGED <<inodes, dirs, disk, refcnt, cache_write_back, handles,
                   panicked, nops, block_size, attr, mount>>

SetAtime == SetTime("atime", "set_atime")
SetMtime == SetTime("mtime", "set_mtime")
SetCtime == SetTime("ctime", "set_ctime")

GetAttr ==
    /\ attr' = get_attr_times(times)
    /\ last' = [NoOp EXCEPT !.op = "get_attr", !.ino = ROOT]
    /\ UNCHANGED <<inodes, dirs, disk, refcnt, cache_write_back, handles,
                   panicked, nops, block_size, times, mount>>

NextTime == SetAtime \/ SetMtime \/ SetCtime \/ GetAttr

SpecTime == InitTime /\ [][NextTime]_vars

\* the fields a set_*time has written
TimesSet == {f \in TimeFields : times.given[f] # NoDuration}

\* C17: decoding the encoded fields of a timestamp gives the seconds and
\* the nanoseconds that were set, and get_attr returns every timestamp
\* that was set unchanged.
C17_TimeRoundTrip ==
    /\ \A f \in TimesSet :
          decode_time(times.raw[f].time, times.raw[f].extra, times.big_endian)
              = times.given[f]
    /\ last.op = "get_attr" => \A f \in TimesSet : attr[f] = times.given[f]

\* the seconds of every timestamp set are the seconds get_attr returns
TimeSecondsRoundTrip ==
    last.op = "get_attr" => \A f \in TimesSet : attr[f].secs = times.given[f].secs

\* get_attr returns no nanoseconds
TimeNanosLost ==
    last.op = "get_attr" => \A f \in TimeFields : attr[f].nanos = 0

(***************************************************************************)
(* The mount specification: Ext4Filesystem::new on a block device that has *)
(* no handle, with any one engine call failing, and the drop of a handle.  *)
(***************************************************************************)
InitMount ==
    /\ block_size = IOBlockSize
    /\ times = NoTimes
    /\ attr = NoAttr
    /\ mount = [d \in Devs |-> Unmounted]
    /\ inodes = [i \in Inos |-> IF i = ROOT THEN RootInode ELSE NoInode]
    /\ disk = InitDisk
    /\ dirs = [i \in Inos |-> IF i = ROOT THEN RootEntries ELSE <<>>]
    /\ refcnt = [i \in Inos |-> 0]
    /\ cache_write_back = 0
    /\ handles = <<>>
    /\ last = NoOp
    /\ panicked = FALSE
    /\ nops = 0

\* what a mount operation leaves in last
MountDone(m, op, d, f) ==
    last' = [NoOp EXCEPT !.op = op, !.ino = d, !.failAt = f, !.log = m.log,
                         !.res = IF m.st = "run" THEN "ok" ELSE m.st,
                         !.code = IF m.st = "err" THEN m.code ELSE EOK,
                         !.failed = m.failed]

\* the item size the engine sets the cache up with: the one asked for, or
\* another one
ItemSizes == {BlockSize, 2 * BlockSize}

New ==
    \E d \in Devs, f \in 0..MaxMountFailAt, itemsize \in ItemSizes :
        /\ ~mount[d].handle
        /\ LET m == new(MountMachine(Unmounted, f), itemsize)
           IN  /\ mount' = [mount EXCEPT ![d] = m.res]
               /\ MountDone(m, "new", d, f)
        /\ UNCHANGED <<inodes, dirs, disk, refcnt, cache_write_back, handles,
                       panicked, nops, block_size, times, attr>>

DropFilesystem ==
    \E d \in Devs, f \in 0..1 :
        /\ mount[d].handle
        /\ LET m == drop_Ext4Filesystem(MountMachine(mount[d], f))
           IN  /\ mount' = [mount EXCEPT ![d] = m.res]
               /\ MountDone(m, "drop", d, f)
        /\ UNCHANGED <<inodes, dirs, disk, refcnt, cache_write_back, handles,
                       panicked, nops, block_size, times, attr>>

NextMount == New \/ DropFilesystem

SpecMount == InitMount /\ [][NextMount]_vars

\* the names of the engine calls of the last operation, in order
CallNames == [j \in 1..Len(last.log) |-> last.log[j].call]

\* the resources of the device the last operation worked on
LastResources == mount[last.ino]

\* C18: when Ext4Filesystem::new fails, every engine resource that was
\* initialised has been finalised exactly once when new returns, and none
\* that was not initialised has been finalised.
C18_FailedNewFinalisesAll ==
    (last.op = "new" /\ last.res = "err") =>
        /\ LastResources.bdev.fini = LastResources.bdev.init
        /\ LastResources.fs.fini = LastResources.fs.init
        /\ LastResources.bcache.fini = LastResources.bcache.init

\* the part of C18 about the block device
FailedNewFinalisesDevice ==
    (last.op = "new" /\ last.res = "err") =>
        LastResources.bdev.fini = LastResources.bdev.init

\* the failure of the last step of new, the binding of the cache, finalises
\* all three resources
FailedBindFinalisesAll ==
    (last.op = "new" /\ last.res = "err" /\ last.failed /\ last.failAt = 5) =>
        \A r \in {"bdev", "fs", "bcache"} :
            LastResources[r].init = 1 /\ LastResources[r].fini = 1

\* C19: dropping a Filesystem Handle issues ext4_fs_fini, ext4_bcache_cleanup,
\* ext4_bcache_fini_dynamic, ext4_block_cache_write_back(0) and
\* ext4_block_fini, once each and in this order, whatever the status of
\* ext4_fs_fini.
C19_DropTeardownOrder ==
    last.op = "drop" =>
        /\ CallNames = <<"ext4_fs_fini", "ext4_bcache_cleanup", "ext4_bcache_fini_dynamic",
                         "ext4_block_cache_write_back", "ext4_block_fini">>
        /\ last.log[4].a = 0
        /\ \A r \in {"bdev", "fs", "bcache"} :
              LastResources[r].init = 1 /\ LastResources[r].fini = 1

\* a drop whose ext4_fs_fini returned a non-zero status
C19_Witness ==
    /\ last.op = "drop" /\ last.log[1].call = "ext4_fs_fini" /\ last.log[1].b # EOK
    /\ Len(last.log) = 5 /\ LastResources.bdev.fini = 1

(***************************************************************************)
(* The directory reader specification: a caller opens a DirReader on the   *)
(* root directory at any offset, asks it for current(), steps it, creates  *)
(* files in the directory while holding it, and drops it.                  *)
(***************************************************************************)
\* the DirReader the caller holds
Reader == handles[Len(handles)]

OpenReader ==
    /\ ~panicked /\ nops < MaxDirOps /\ handles = <<>>
    /\ \E offset \in 0..Len(dirs[ROOT]), f \in 0..1 :
          ReadDirDone(fs_read_dir(Machine(f, "ok", "lo"), ROOT, offset),
                      [NoOp EXCEPT !.op = "read_dir", !.ino = ROOT, !.pos = offset])

Current ==
    /\ ~panicked /\ nops < MaxDirOps /\ handles # <<>>
    /\ LET m == Holding(Reader, 0)
       IN  Done(Ok(m, current(m).ino),
                [NoOp EXCEPT !.op = "current", !.ino = Reader.ino,
                             !.name = current(m).name])
    /\ UNCHANGED handles

Step ==
    /\ ~panicked /\ nops < MaxDirOps /\ handles # <<>>
    /\ \E f \in 0..1 :
          LET m == step(Holding(Reader, f))
          IN  /\ Done(m, [NoOp EXCEPT !.op = "step", !.ino = Reader.ino,
                                      !.pos = Reader.pos, !.n = Reader.curr])
              /\ handles' = [handles EXCEPT ![Len(handles)] =
                                [@ EXCEPT !.pos = m.iter.off, !.curr = m.iter.curr]]

\* a file is created in the directory, under a name it does not hold
CreateInDirectory ==
    /\ ~panicked /\ nops < MaxDirOps
    /\ \E name \in OpNames \ EntryNames(dirs[ROOT]) :
          Done(create(Machine(0, "ok", "lo"), ROOT, name, "RegularFile", 420),
               [NoOp EXCEPT !.op = "create", !.ino = ROOT, !.name = name,
                            !.ty = "RegularFile", !.pos = 420])
    /\ UNCHANGED handles

NextDir == OpenReader \/ Current \/ Step \/ CreateInDirectory \/ DropHandle

SpecDir == Init /\ [][NextDir]_vars

\* the caller holds a DirReader whose current() returns None
Exhausted == handles # <<>> /\ current(Holding(Reader, 0)).ino = 0

\* C20: once current() of a DirReader returns None it returns None after
\* every further operation for as long as the reader is held, and every
\* further step() returns Ok without calling ext4_dir_iterator_next.
C20_ExhaustionTerminal ==
    [][(Exhausted /\ handles' # <<>>) =>
           /\ Exhausted'
           /\ (last'.op = "step") =>
                  /\ last'.res = "ok"
                  /\ Calls({"ext4_dir_iterator_next"})' = {}]_vars

\* an exhausted reader was stepped after the directory got a further entry
C20_Witness ==
    /\ last.op = "step" /\ last.res = "ok" /\ last.n = 0
    /\ Exhausted
    /\ Len(dirs[Reader.ino]) > Reader.pos

(***************************************************************************)
(* The adapter specification: the engine calls bread or bwrite of the      *)
(* adapter with a block id and a block count, and the wrapped device       *)
(* answers Ok or an error.                                                 *)
(***************************************************************************)
\* block counts of a request: none, a few, and around the count whose byte
\* length no longer fits a u32
DevCounts == 0..2 \cup {2^23 - 1, 2^23, 2^23 + 1}
DevBlockIds == {0, 1, 7}

InitDev ==
    /\ block_size = IOBlockSize
    /\ times = NoTimes
    /\ attr = NoAttr
    /\ mount = Mounted
    /\ inodes = [i \in Inos |-> IF i = ROOT THEN RootInode ELSE NoInode]
    /\ disk = InitDisk
    /\ dirs = [i \in Inos |-> IF i = ROOT THEN RootEntries ELSE <<>>]
    /\ refcnt = [i \in Inos |-> 0]
    /\ cache_write_back = 1
    /\ handles = <<>>
    /\ last = NoOp
    /\ panicked = FALSE
    /\ nops = 0

\* what a callback leaves in last
DevDone(r, op, build, blk_id, blk_cnt, answer) ==
    /\ last' = [NoOp EXCEPT !.op = op, !.ty = build, !.pos = blk_id, !.n = blk_cnt,
                            !.code = answer, !.val = r.status, !.log = r.calls,
                            !.res = IF r.st = "ret" THEN "ok" ELSE r.st]
    /\ panicked' = (r.st = "panic")
    /\ UNCHANGED <<inodes, dirs, disk, refcnt, cache_write_back, handles,
                   nops, block_size, times, attr, mount>>

Bread ==
    /\ ~panicked
    /\ \E build \in Builds, blk_id \in DevBlockIds, blk_cnt \in DevCounts,
          answer \in DeviceAnswers :
          DevDone(dev_bread(build, blk_id, blk_cnt, answer),
                  "dev_bread", build, blk_id, blk_cnt, answer)

Bwrite ==
    /\ ~panicked
    /\ \E build \in Builds, blk_id \in DevBlockIds, blk_cnt \in DevCounts,
          answer \in DeviceAnswers :
          DevDone(dev_bwrite(build, blk_id, blk_cnt, answer),
                  "dev_bwrite", build, blk_id, blk_cnt, answer)

NextDev == Bread \/ Bwrite

SpecDev == InitDev /\ [][NextDev]_vars

\* the last operation was a callback of the adapter
DevCallback == last.op \in {"dev_bread", "dev_bwrite"}

\* what the claim asks of a callback
DevCallbackAsClaimed ==
    IF last.n = 0
    THEN last.res = "ok" /\ last.val = EOK /\ last.log = <<>>
    ELSE /\ last.res = "ok"
         /\ Len(last.log) = 1
         /\ last.log[1].call = (IF last.op = "dev_bread" THEN "read_blocks"
                                 ELSE "write_blocks")
         /\ last.log[1].a = last.pos
         /\ last.log[1].b = full_mul(EXT4_DEV_BSIZE, last.n)
         /\ last.val = (IF last.code = EOK THEN EOK ELSE EIO)

\* C21: bread and bwrite return success without a device call for a count
\* of 0; otherwise they call the device once with the block id and a buffer
\* of count * 512 bytes and return success or EIO as the device call
\* succeeds or fails.
C21_DeviceCallbacks == DevCallback => DevCallbackAsClaimed

\* the same for the counts whose byte length fits a u32
DevCallbacksWithinU32 ==
    (DevCallback /\ last.n < 2^23) => DevCallbackAsClaimed

(***************************************************************************)
(* The inode type specification: one create of an inode of any type from   *)
(* every image of the directory specification.                             *)
(***************************************************************************)
InodeTypes == {"Fifo", "CharacterDevice", "Directory", "BlockDevice",
               "RegularFile", "Symlink", "Socket"}

CreateOfType ==
    /\ last.op = "none"
    /\ \E parent \in DirInodes, name \in OpNames, ty \in InodeTypes,
          cmode \in CreateModes, f \in 0..MaxFailAt :
       \E ub \in UBs(f) :
          /\ name \notin EntryNames(dirs[parent])
          /\ Done(create(Machine(f, ub, "lo"), parent, name, ty, cmode),
                  [NoOp EXCEPT !.op = "create", !.ino = parent, !.name = name,
                               !.ty = ty, !.pos = cmode])
    /\ UNCHANGED handles

NextType == CreateOfType

SpecType == Init /\ [][NextType]_vars

\* C22: an inode created with type T is reported as T by inode_type(), and
\* is_dir() is true exactly for the directory inodes.
C22_InodeTypeReported ==
    /\ (last.op = "create" /\ last.res = "ok") =>
          inode_type(inodes[last.val].mode) = last.ty
    /\ \A i \in AllocInodes : is_dir(inodes[i].mode) <=> IsDirInode(inodes[i])

\* inode_type() reports no type for any inode
InodeTypeAlwaysUnknown ==
    \A i \in AllocInodes : inode_type(inodes[i].mode) = "Unknown"

(***************************************************************************)
(* The unmount specification: a caller of the mounted filesystem of the    *)
(* directory specification gets a DirLookupResult or a DirReader, drops    *)
(* the Ext4Filesystem and drops the value, in any order: the values carry  *)
(* no borrow of the Ext4Filesystem.                                        *)
(***************************************************************************)
LookupMounted == mount[1].handle /\ Lookup
ReadDirMounted == mount[1].handle /\ ReadDir

\* the caller drops the Ext4Filesystem
DropMounted ==
    /\ ~panicked /\ mount[1].handle
    /\ \E f \in 0..1 :
          LET m == drop_Ext4Filesystem(MountMachine(mount[1], f))
          IN  /\ mount' = [mount EXCEPT ![1] = m.res]
              /\ last' = [NoOp EXCEPT !.op = "drop_fs", !.ino = 1,
                                      !.failAt = f, !.log = m.log, !.res = "ok"]
    /\ UNCHANGED <<inodes, dirs, disk, refcnt, cache_write_back, handles,
                   panicked, nops, block_size, times, attr>>

NextUnmount == LookupMounted \/ ReadDirMounted \/ DropHandle \/ DropMounted

SpecUnmount == Init /\ [][NextUnmount]_vars

\* ext4_fs_fini of the filesystem has been called
Finalised == mount[1].fs.fini > 0

\* C23: no ext4_fs_put_inode_ref, ext4_dir_iterator_fini or
\* ext4_dir_destroy_result is called once ext4_fs_fini of the filesystem
\* has been called.
C23_ReleasedBeforeFinalised ==
    (Finalised /\ last.op = "drop") =>
        Calls({"ext4_fs_put_inode_ref", "ext4_dir_iterator_fini",
               "ext4_dir_destroy_result"}) = {}

\* the operations of the Filesystem Handle that hand no value to the
\* caller leave no Inode Reference checked out
NoReferenceLeftWithoutValue ==
    (handles = <<>> /\ ~panicked /\ ~last.failed) => \A i \in Inos : refcnt[i] = 0

(***************************************************************************)
(* The dirty-flag specification: a symlink and an empty regular file, and  *)
(* the mutators of an Inode Reference applied to them through              *)
(* with_inode_ref.  The record of an operation holds the inodes whose      *)
(* InodeRef the operation has marked dirty.                                *)
(***************************************************************************)
\* Ext4Filesystem::with_inode_ref(ino, f)
with_inode_ref(m, i, f(_, _)) ==
    Then(inode_ref(m, i), LAMBDA a :
        IF a.st # "run" THEN a
        ELSE drop_InodeRef(f(a, Len(a.refs)), Len(a.refs)))

\* the empty regular file
EMPTY == SYMLINK + 1

InitDirty ==
    /\ block_size = SymBlockSize
    /\ times = NoTimes
    /\ attr = NoAttr
    /\ mount = Mounted
    /\ \E len \in {-1, INLINE_SIZE - 1} :
          inodes = [i \in Inos |->
                      IF i = ROOT THEN RootInode
                      ELSE IF i = SYMLINK THEN SymlinkInode(len)
                      ELSE IF i = EMPTY
                      THEN [alloc |-> TRUE, mode |-> S_IFREG + 420, nlink |-> 1,
                            size |-> 0, bmap |-> <<>>, body |-> <<>>, extents |-> TRUE]
                      ELSE NoInode]
    /\ disk = InitDisk
    /\ dirs = [i \in Inos |->
                 IF i = ROOT
                 THEN RootEntries \o << [name |-> "l", ino |-> SYMLINK],
                                        [name |-> "e", ino |-> EMPTY] >>
                 ELSE <<>>]
    /\ refcnt = [i \in Inos |-> 0]
    /\ cache_write_back = 1
    /\ handles = <<>>
    /\ last = NoOp
    /\ panicked = FALSE
    /\ nops = 0

\* an operation f of the InodeRef of inode i, which leaves the time fields
AttrOp(op, i, n, f(_, _)) ==
    /\ ~panicked /\ nops < MaxOps
    /\ \E fl \in 0..MaxFailAt : \E ub \in UBs(fl) :
          Done(with_inode_ref(Machine(fl, ub, "lo"), i, f),
               [NoOp EXCEPT !.op = op, !.ino = i, !.n = n, !.failAt = fl, !.ub = ub])
    /\ UNCHANGED handles

SetMode ==
    \E i \in {SYMLINK, EMPTY}, v \in {0, 420, 511} :
        AttrOp("set_mode", i, v, LAMBDA a, r : set_mode(a, r, v))
SetNlink ==
    \E i \in {SYMLINK, EMPTY}, n \in 0..2 :
        AttrOp("set_nlink", i, n, LAMBDA a, r : set_nlink(a, r, n))
IncNlink ==
    \E i \in {SYMLINK, EMPTY} : AttrOp("inc_nlink", i, 0, LAMBDA a, r : inc_nlink(a, r))
DecNlink ==
    \E i \in {SYMLINK, EMPTY} : AttrOp("dec_nlink", i, 0, LAMBDA a, r : dec_nlink(a, r))

\* set_atime, set_mtime, set_ctime of the InodeRef of the symlink
SetTimeDirty(f, op) ==
    /\ ~panicked /\ nops < MaxOps
    /\ \E dur \in {Duration(Word(1, 64), 0), Duration(Word(0, 64), 1)} :
          /\ times' = set_time(times, f, dur)
          /\ Return(with_inode_ref(Machine(0, "ok", "lo"), SYMLINK,
                                   LAMBDA a, r : mark_dirty(a, r)),
                    [NoOp EXCEPT !.op = op, !.ino = SYMLINK])
    /\ UNCHANGED handles

SetAtimeDirty == SetTimeDirty("atime", "set_atime")
SetMtimeDirty == SetTimeDirty("mtime", "set_mtime")
SetCtimeDirty == SetTimeDirty("ctime", "set_ctime")

WriteAtDirty ==
    /\ ~panicked /\ nops < MaxOps
    /\ \E n \in 0..2, pos \in 0..inodes[EMPTY].size, fl \in 0..MaxFailAt :
       \E ub \in UBs(fl) :
          Done(fs_write_at(Machine(fl, ub, "lo"), EMPTY, Target(n, 60), pos),
               [NoOp EXCEPT !.op = "write_at", !.ino = EMPTY, !.pos = pos,
                            !.buf = Target(n, 60), !.n = n, !.failAt = fl, !.ub = ub])
    /\ UNCHANGED handles

SetSymlinkDirty ==
    /\ ~panicked /\ nops < MaxOps
    /\ \E n \in {0, 1, INLINE_SIZE - 1, INLINE_SIZE, BlockSize}, fl \in 0..MaxFailAt :
       \E ub \in UBs(fl) :
          Done(fs_set_symlink(Machine(fl, ub, "lo"), SYMLINK, Target(n, 100)),
               [NoOp EXCEPT !.op = "set_symlink", !.ino = SYMLINK,
                            !.buf = Target(n, 100), !.n = n, !.failAt = fl, !.ub = ub])
    /\ UNCHANGED handles

NextDirty ==
    \/ SetMode \/ SetNlink \/ IncNlink \/ DecNlink
    \/ SetAtimeDirty \/ SetMtimeDirty \/ SetCtimeDirty
    \/ WriteAtDirty \/ SetSymlinkDirty

SpecDirty == InitDirty /\ [][NextDirty]_vars

\* the last operation returned Ok and has changed a field of its inode
ChangedInode ==
    /\ last.op # "none" /\ last.res = "ok"
    /\ \/ last.op \in {"set_mode", "set_nlink", "inc_nlink", "dec_nlink",
                        "set_atime", "set_mtime", "set_ctime"}
       \/ inodes[last.ino] # last.pre_inodes[last.ino]

\* C24: every operation of an Inode Reference that changes a field of the
\* inode and returns Ok has marked the reference dirty.
C24_ChangesMarkDirty == ChangedInode => last.ino \in last.dirty

\* all of them but set_symlink do
ChangesButSymlinkMarkDirty ==
    (ChangedInode /\ last.op # "set_symlink") => last.ino \in last.dirty

\* set_symlink never marks the reference dirty, on either path
SetSymlinkNeverMarksDirty == last.op = "set_symlink" => last.dirty = {}

(***************************************************************************)
(* The bulk calls of read_at and write_at under the I/O specification.     *)
(***************************************************************************)
\* the full interior blocks of the last read_at or write_at
FirstFull == (last.pos \div BlockSize) + (IF last.pos % BlockSize > 0 THEN 1 ELSE 0)
EndFull ==
    IF Reading THEN Min(last.pos + last.n, PreSize) \div BlockSize
    ELSE (last.pos + last.n) \div BlockSize
FullBlocks == FirstFull..(EndFull - 1)

\* the physical block of logical block b: as the read found it, as the
\* write left it
Phys(b) ==
    IF Reading THEN MappedBlock(last.pre_inodes[last.ino], b)
    ELSE MappedBlock(inodes[last.ino], b)

\* b starts a maximal run of consecutive blocks stored consecutively
RunStart(b) ==
    /\ b \in FullBlocks /\ Phys(b) # 0
    /\ b = FirstFull \/ Phys(b - 1) = 0 \/ Phys(b) # Phys(b - 1) + 1

\* the last block of the maximal run that b starts
RunEnd(b) ==
    CHOOSE e \in FullBlocks :
        /\ e >= b /\ \A k \in b..e : Phys(k) = Phys(b) + (k - b)
        /\ e + 1 \notin FullBlocks \/ Phys(e + 1) # Phys(b) + (e + 1 - b)

\* the maximal runs from block b on, each with its first physical block and
\* its length
RECURSIVE RunsFrom(_)
RunsFrom(b) ==
    IF b \notin FullBlocks THEN <<>>
    ELSE IF RunStart(b) THEN << <<Phys(b), RunEnd(b) - b + 1>> >> \o RunsFrom(b + 1)
    ELSE RunsFrom(b + 1)

\* the bulk calls of the last operation, each with its start and count
BulkCalls ==
    LET s == SelectSeq(last.log, LAMBDA e : e.call = (IF Reading THEN "ext4_blocks_get_direct"
                                                     ELSE "ext4_blocks_set_direct"))
    IN  [j \in 1..Len(s) |-> <<s[j].a, s[j].b>>]

\* the bytes of full block b in the caller's buffer are those of its
\* physical block; a hole reads as zeros
FullBlockData(b) ==
    \A j \in 1..BlockSize :
        LET k == b * BlockSize - last.pos + j
        IN  IF Reading
            THEN last.out[k] = (IF Phys(b) = 0 THEN 0 ELSE last.pre_disk[Phys(b)][j])
            ELSE disk[Phys(b)][j] = last.buf[k]

\* C25: over the full interior blocks, read_at and write_at issue one bulk
\* call per maximal run of consecutive logical blocks with consecutive
\* non-zero physical blocks, in order, with the run's first physical block
\* and its length; the data are the buffer bytes of the run's blocks and no
\* hole is part of a bulk call.
C25_OneBulkCallPerRun ==
    ((Reading \/ Writing) /\ last.res = "ok" /\ ~last.failed) =>
        /\ BulkCalls = (IF FullBlocks = {} THEN <<>> ELSE RunsFrom(FirstFull))
        /\ Calls({IF Reading THEN "ext4_blocks_set_direct"
                  ELSE "ext4_blocks_get_direct"}) = {}
        /\ \A b \in FullBlocks : FullBlockData(b)

\* a read of three full blocks: a run of two, then a block stored before them
C25_Witness ==
    /\ Reading /\ last.res = "ok" /\ ~last.failed
    /\ BulkCalls = << <<2, 2>>, <<1, 1>> >>

\* a write of three full blocks that fills a hole between two stored blocks
C25_WriteWitness ==
    /\ Writing /\ last.res = "ok" /\ ~last.failed
    /\ Len(BulkCalls) >= 2
    /\ Calls({"ext4_fs_init_inode_dblk_idx"}) # {}

\* block_count of the last write_at: the blocks of the file when it began
PreBlockCount == DivCeil(PreSize, BlockSize)

\* the logical blocks the engine was asked to initialise and to append
InitBlocks == SelectSeq(last.log, LAMBDA e : e.call = "ext4_fs_init_inode_dblk_idx")
AppendBlocks == SelectSeq(last.log, LAMBDA e : e.call = "ext4_fs_append_inode_dblk")

\* the blocks a write of last.n bytes at last.pos covers
WrittenBlocks ==
    IF last.n = 0 THEN {}
    ELSE (last.pos \div BlockSize)..((last.pos + last.n - 1) \div BlockSize)

\* C26: in a write_at at an offset up to the size of the file, on an engine
\* that appends at block ceil(size / block_size), the assertion on the
\* appended block never fails; the blocks below the block count at entry are
\* initialised and never appended, the others are appended one after the
\* other from the block count on.
C26_AppendsInOrder ==
    (Writing /\ last.pos <= PreSize) =>
        /\ last.res = "panic" => last.failed
        /\ \A j \in 1..Len(InitBlocks) : InitBlocks[j].b < PreBlockCount
        /\ \A j \in 1..Len(AppendBlocks) : AppendBlocks[j].b = PreBlockCount + j - 1
        /\ (last.res = "ok" /\ ~last.failed) =>
              /\ {InitBlocks[j].b : j \in 1..Len(InitBlocks)}
                     = {b \in WrittenBlocks : b < PreBlockCount}
              /\ {AppendBlocks[j].b : j \in 1..Len(AppendBlocks)}
                     = {b \in WrittenBlocks : b >= PreBlockCount}

\* a write over the only block of a file and the two blocks after it
C26_Witness ==
    /\ Writing /\ last.pos <= PreSize /\ last.res = "ok" /\ ~last.failed
    /\ Len(InitBlocks) = 1 /\ Len(AppendBlocks) = 2

(***************************************************************************)
(* The entries specification: the images of the rename specification, and  *)
(* one create, one unlink or one rename from every image, with every       *)
(* engine call of it failing in turn.                                      *)
(***************************************************************************)
CreateOnce == last.op = "none" /\ Create
UnlinkOnce == last.op = "none" /\ Unlink

NextEntries == CreateOnce \/ UnlinkOnce \/ Rename

SpecEntries == InitRename /\ [][NextEntries]_vars

\* the lookup results on directory d that are live after the first j calls
LiveResults(j, d) ==
    Cardinality({k \in 1..j : last.log[k].call = "DirLookupResult" /\ last.log[k].a = d})
    - Cardinality({k \in 1..j : last.log[k].call = "ext4_dir_destroy_result"
                                    /\ last.log[k].a = d})

\* the calls that destroy the result made at call c, and the puts of the
\* reference it holds
DestroysOf(c) ==
    {k \in (c + 1)..Len(last.log) :
        /\ last.log[k].call = "ext4_dir_destroy_result" /\ last.log[k].a = last.log[c].a
        /\ LiveResults(k - 1, last.log[c].a) = LiveResults(c, last.log[c].a)
        /\ \A h \in (c + 1)..(k - 1) :
              ~(last.log[h].call = "ext4_dir_destroy_result"
                /\ last.log[h].a = last.log[c].a)}
PutsOf(c) ==
    {k \in 1..Len(last.log) :
        last.log[k].call = "ext4_fs_put_inode_ref" /\ last.log[k].b = last.log[c].b}

\* C27: in create, unlink and rename no lookup result on a directory is
\* live when ext4_dir_add_entry or ext4_dir_remove_entry is called on that
\* directory, and every lookup result is destroyed once, before the put of
\* the Inode Reference it holds.
C27_NoLiveResultAtEntryChange ==
    (last.op \in {"create", "unlink", "rename"}) =>
        /\ \A j \in Calls({"ext4_dir_add_entry", "ext4_dir_remove_entry"}) :
              LiveResults(j - 1, last.log[j].a) = 0
        /\ \A j \in 1..Len(last.log), d \in Inos : LiveResults(j, d) \in {0, 1}
        /\ \A c \in Calls({"DirLookupResult"}) :
              /\ Cardinality(DestroysOf(c)) = 1
              /\ \A p \in PutsOf(c) : \A k \in DestroysOf(c) : k < p
              /\ Cardinality(PutsOf(c)) = 1

\* a rename that found its destination and its source in the directory it
\* then removes the source from and adds the destination to
C27_Witness ==
    /\ last.op = "rename" /\ last.res = "ok" /\ last.ino = last.ino2
    /\ Cardinality(Calls({"DirLookupResult"})) = 2
    /\ Cardinality(Calls({"ext4_dir_remove_entry"})) = 2
    /\ Calls({"ext4_dir_add_entry"}) # {}

(***************************************************************************)
(* The write-back window specification: the files of the I/O               *)
(* specification, and one read_at or one set_len from every image, with    *)
(* every engine call of it failing in turn.                                *)
(***************************************************************************)
\* Ext4Filesystem::set_len
fs_set_len(m, i, len) ==
    Then(inode_ref(m, i), LAMBDA a :
        IF a.st # "run" THEN a
        ELSE drop_InodeRef(set_len(a, Len(a.refs), len), Len(a.refs)))

\* lengths of the buffers read: empty, within a block, two blocks, all
WindowReadLens == {0, 1, 2 * BlockSize, MaxPos}

ReadInWindow ==
    /\ last.op = "none"
    /\ \E n \in WindowReadLens, pos \in 0..MaxPos, f \in 0..(MaxFailAt + NumFBlocks) :
       \E ub \in UBs(f) :
          Done(fs_read_at([Machine(f, ub, "lo") EXCEPT !.out = [j \in 1..n |-> UNTOUCHED]],
                          FILE, n, pos),
               [NoOp EXCEPT !.op = "read_at", !.ino = FILE, !.pos = pos, !.n = n,
                            !.failAt = f, !.ub = ub])
    /\ UNCHANGED handles

SetLen ==
    /\ last.op = "none"
    /\ \E len \in 0..MaxPos, f \in 0..MaxFailAt :
       \E ub \in UBs(f) :
          Done(fs_set_len(Machine(f, ub, "lo"), FILE, len),
               [NoOp EXCEPT !.op = "set_len", !.ino = FILE, !.pos = len,
                            !.failAt = f, !.ub = ub])
    /\ UNCHANGED handles

NextWindow == ReadInWindow \/ SetLen

SpecWindow == InitIO /\ [][NextWindow]_vars

\* the calls that enable and that disable write-back, and the calls the
\* window is held open for
Enables == {j \in Calls({"ext4_block_cache_write_back"}) : last.log[j].a = 1}
Disables == {j \in Calls({"ext4_block_cache_write_back"}) : last.log[j].a = 0}
WindowCalls == Calls({"ext4_blocks_get_direct", "ext4_fs_truncate_inode"})

\* every call the window is for lies between an enable and a disable
InsideWindow ==
    \A k \in WindowCalls : \E e \in Enables, d \in Disables : e < k /\ k < d

\* C28: each read_at and each truncate enables write-back once and disables
\* it once, after the last bulk read or the engine's truncate, also when an
\* engine call inside the window fails; the enable count after the call is
\* the one before it.
C28_WindowPerCall ==
    (Reading \/ Calls({"ext4_fs_truncate_inode"}) # {}) =>
        /\ Cardinality(Enables) = 1 /\ Cardinality(Disables) = 1
        /\ InsideWindow
        /\ cache_write_back = last.pre_wb

\* the read_at reaches its phase of full blocks: the request is not empty
\* and not beyond the end of the file, and the first partial block is read
ReachesFullBlocks ==
    /\ Reading /\ last.n > 0 /\ last.pos < PreSize
    /\ \/ ~last.failed
       \/ last.failAt > (IF last.pos % BlockSize > 0
                         THEN (IF MappedBlock(last.pre_inodes[last.ino],
                                              last.pos \div BlockSize) # 0 THEN 3 ELSE 2)
                         ELSE 1)

\* C28, the windows there are: a read_at that reaches its phase of full
\* blocks and a truncate enable write-back once, another read_at or set_len
\* never; each enable is followed by one disable, after the last bulk read
\* or the engine's truncate, also when an engine call inside the window
\* fails; the enable count after the call is the one before it.
C28_WindowsBalanced ==
    (last.op \in {"read_at", "set_len"}) =>
        /\ Cardinality(Enables) = Cardinality(Disables)
        /\ Cardinality(Enables) =
              (IF ReachesFullBlocks \/ Calls({"ext4_fs_truncate_inode"}) # {}
               THEN 1 ELSE 0)
        /\ InsideWindow
        /\ \A e \in Enables : \A d \in Disables : e < d
        /\ cache_write_back = last.pre_wb

\* a bulk read fails inside the window
C28_Witness ==
    /\ Reading /\ last.res = "err" /\ last.failed
    /\ \E k \in Calls({"ext4_blocks_get_direct"}) :
          /\ k + 1 \in Disables
          /\ \A j \in Calls({"ext4_blocks_get_direct"}) : j <= k
    /\ Cardinality(Calls({"ext4_blocks_get_direct"})) = 2

\* a truncate whose engine call fails
C28_TruncateWitness ==
    /\ last.op = "set_len" /\ last.res = "err" /\ last.failed
    /\ Calls({"ext4_fs_truncate_inode"}) # {}
    /\ Cardinality(Disables) = 1

(***************************************************************************)
(* Link counts and missing sources under the rename specification.         *)
(***************************************************************************)
\* the directory entries of the image ds, other than "." and "..", that
\* refer to inode i
EntriesTo(ds, i) ==
    Cardinality({p \in UNION {{<<d, k>> : k \in 1..Len(ds[d])} : d \in Inos} :
                    /\ ds[p[1]][p[2]].ino = i
                    /\ ds[p[1]][p[2]].name \notin {".", ".."}})

\* the last operation is a successful rename of something other than a
\* directory
RenamedNonDirectory ==
    /\ Renaming /\ last.res = "ok"
    /\ PreTarget # 0 /\ ~IsDirInode(last.pre_inodes[PreTarget])

\* C29: after a successful rename of a non-directory the link count of the
\* moved inode is the one before the call and equals the number of
\* directory entries that refer to the inode.
C29_RenameKeepsLinkCount ==
    RenamedNonDirectory =>
        /\ inodes[PreTarget].nlink = last.pre_inodes[PreTarget].nlink
        /\ inodes[PreTarget].nlink = EntriesTo(dirs, PreTarget)

\* the count the images start with is the number of entries
LinkCountIsEntriesBefore ==
    RenamedNonDirectory =>
        last.pre_inodes[PreTarget].nlink = EntriesTo(last.pre_dirs, PreTarget)

\* a rename to a name that was not bound adds one to the link count of the
\* moved inode and leaves the number of its entries as it was
RenameAddsLink ==
    (RenamedNonDirectory /\ PreDestination = 0) =>
        /\ inodes[PreTarget].nlink = last.pre_inodes[PreTarget].nlink + 1
        /\ EntriesTo(dirs, PreTarget) = EntriesTo(last.pre_dirs, PreTarget)

\* the last operation is a rename of a name its directory does not hold,
\* with no engine call made to fail
RenamedMissingSource == Renaming /\ PreTarget = 0 /\ last.failAt = 0

\* C30: a rename whose source name does not exist fails with not-found and
\* leaves the filesystem as it was: the entry at the destination is still
\* there and resolves to the same inode, whose content, size and link count
\* are as before.
C30_MissingSourceChangesNothing ==
    RenamedMissingSource =>
        /\ last.res = "err" /\ last.code = ENOENT
        /\ dirs = last.pre_dirs
        /\ inodes = last.pre_inodes
        /\ disk = last.pre_disk

\* it fails with not-found
MissingSourceNotFound ==
    RenamedMissingSource => (last.res = "err" /\ last.code = ENOENT)

\* it changes nothing when the destination name is not bound either
MissingSourceFreeDestination ==
    (RenamedMissingSource /\ PreDestination = 0) =>
        (dirs = last.pre_dirs /\ inodes = last.pre_inodes /\ disk = last.pre_disk)

\* a destination that was bound is unlinked all the same
MissingSourceUnlinksDestination ==
    (RenamedMissingSource /\ PreDestination # 0) =>
        /\ FindEntry(dirs[last.ino2], last.name2) = 0
        /\ ~inodes[PreDestination].alloc

\* the last operation is a rename of a name its directory holds onto itself
RenamedOntoItself ==
    /\ Renaming /\ PreTarget # 0
    /\ last.ino = last.ino2 /\ last.name = last.name2

\* C31: a rename of an existing entry onto itself, whether it returns Ok
\* or an error, destroys nothing: the name still resolves to the same
\* inode, which is still allocated, with its content and size unchanged.
C31_SelfRenameKeepsEntry ==
    RenamedOntoItself =>
        /\ Resolves(last.ino, last.name, PreTarget)
        /\ inodes[PreTarget].alloc
        /\ inodes[PreTarget].size = last.pre_inodes[PreTarget].size
        /\ inodes[PreTarget].bmap = last.pre_inodes[PreTarget].bmap
        /\ disk = last.pre_disk

\* with no engine call made to fail it returns not-found, the name is gone
\* and the inode is cut to size 0 and freed
SelfRenameDestroysEntry ==
    (RenamedOntoItself /\ last.failAt = 0) =>
        /\ last.res = "err" /\ last.code = ENOENT
        /\ FindEntry(dirs[last.ino], last.name) = 0
        /\ ~inodes[PreTarget].alloc
        /\ inodes[PreTarget].size = 0

\* no rename onto itself returns Ok
SelfRenameNeverSucceeds == RenamedOntoItself => last.res # "ok"

(***************************************************************************)
(* Failing creates under the entries specification.                        *)
(***************************************************************************)
\* the allocated inodes of the image tbl
Allocated(tbl) == {i \in Inos : tbl[i].alloc}

\* the last operation is a create that returned an error
CreateFailed == last.op = "create" /\ last.res = "err"

\* C32: after a create that returns an error the allocated inodes, the
\* entries of the parent and the link count of the parent are those before
\* the call: an inode allocated by the call is freed again.
C32_FailedCreateLeavesNoTrace ==
    CreateFailed =>
        /\ Allocated(inodes) = Allocated(last.pre_inodes)
        /\ dirs[last.ino] = last.pre_dirs[last.ino]
        /\ inodes[last.ino].nlink = last.pre_inodes[last.ino].nlink

\* a create whose allocation fails allocates nothing
FailedAllocationLeavesNoTrace ==
    (CreateFailed /\ Calls({"ext4_fs_get_inode_ref"}) = {}) =>
        (inodes = last.pre_inodes /\ dirs = last.pre_dirs)

\* a create that fails after its allocation leaves the new inode allocated:
\* no create calls ext4_fs_free_inode
FailedCreateLeaksInode ==
    /\ last.op = "create" => Calls({"ext4_fs_free_inode"}) = {}
    /\ (CreateFailed /\ Calls({"ext4_fs_get_inode_ref"}) # {}) =>
          \E i \in Inos :
             /\ Allocated(inodes) = Allocated(last.pre_inodes) \cup {i}
             /\ i \notin Allocated(last.pre_inodes)

====
